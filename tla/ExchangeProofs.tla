--------------------------- MODULE ExchangeProofs ---------------------------
(***************************************************************************)
(* Proofs about Exchange, for any number of requests and chunks, every     *)
(* capacity of the channel and every threshold; about the events of a      *)
(* stream while its chunks arrive (Streams), for all octets and chunks;    *)
(* about the secrets of a report on operations (Masking), for all texts    *)
(* and variables; and about a body as it is shown (Views), for every text. *)
(***************************************************************************)
EXTENDS Exchange, Views, Masking, SequenceTheorems, FiniteSetTheorems, WellFoundedInduction, TLAPS

-----------------------------------------------------------------------------
(* Types *)

\* The constants are numbers.
LEMMA Bounds ==
  /\ MaxGeneration \in Nat /\ MaxChunks \in Nat /\ Threshold \in Nat
  /\ LiveCap \in Nat /\ MaxSaving \in Nat /\ MaxSweeps \in Nat
  /\ ChannelSize \in Nat /\ ChannelSize > 0
BY ConstantsAssumption

\* Waking a task keeps the queue a queue of tasks.
LEMMA WakeType ==
  ASSUME NEW queue \in Seq(Task), NEW task \in Task
  PROVE  Wake(queue, task) \in Seq(Task)
BY DEF Wake

\* The responses and requests that are assigned most often have their types.
LEMMA Constants ==
  /\ \A kind \in {"idle", "cancelled"} : [Idle EXCEPT !.kind = kind] \in Response
  /\ Idle \in Response
  /\ NoLive \in Live
  /\ Unsent \in Exec
  /\ Gone \in Exec /\ Gone.at = "gone" /\ Gone.got = 0 /\ Gone.failed = FALSE
<1>1. 0 \in 0..MaxChunks /\ 0 \in 0..LiveCap
  BY Bounds
<1>2. NoLive \in Live
  BY <1>1 DEF NoLive, Live
<1>3. Idle \in Response /\ \A kind \in {"idle", "cancelled"} : [Idle EXCEPT !.kind = kind] \in Response
  BY DEF Idle, Response, None
<1>4. {"none", "gone"} \subseteq Place
  BY DEF Place
<1>5. Unsent \in Exec
  BY <1>1, <1>4 DEF Unsent, Exec
<1>6. Gone \in Exec /\ Gone.at = "gone" /\ Gone.got = 0 /\ Gone.failed = FALSE
  BY <1>1, <1>4 DEF Unsent, Gone, Exec
<1> QED BY <1>2, <1>3, <1>5, <1>6

\* A request that moves on keeps what it has received.
LEMMA Moves ==
  ASSUME NEW e \in Exec, NEW p \in Place
  PROVE  /\ [e EXCEPT !.at = p] \in Exec
         /\ [e EXCEPT !.at = p].at = p
         /\ [e EXCEPT !.at = p].got = e.got
         /\ [e EXCEPT !.at = p].failed = e.failed
BY DEF Exec

\* What is sent into the channel keeps it and the queue well typed.
LEMMA EmitType ==
  ASSUME TypeOK, NEW g, NEW event \in Event, Emit(g, event) \/ Offer(g, event)
  PROVE  /\ ready' \in Seq(Task)
         /\ chan' \in Seq(Event) /\ Len(chan') <= ChannelSize
<1>1. "events" \in Task
  BY DEF Task
<1>2. CASE UNCHANGED <<chan, ready>>
  BY <1>2 DEF TypeOK
<1>3. CASE Len(chan) < ChannelSize /\ chan' = Append(chan, event) /\ ready' = Wake(ready, "events")
  <2>1. ready' \in Seq(Task)
    BY <1>1, <1>3, WakeType DEF TypeOK
  <2>2. Append(chan, event) \in Seq(Event) /\ Len(Append(chan, event)) = Len(chan) + 1
    BY DEF TypeOK
  <2> QED BY <1>3, <2>1, <2>2, Bounds DEF TypeOK
<1> QED BY <1>2, <1>3 DEF Emit, Offer

\* A step that changes who owns bodies keeps the directory well typed.
LEMMA OwnedType ==
  ASSUME TypeOK, NEW created \in SUBSET Request, Owned(created)
  PROVE  files' \subseteq Request /\ dirOld' \in BOOLEAN
BY DEF Owned, TypeOK

\* A step that makes no body owned that was not owned before, or was just
\* created, leaves every owned one with its file.
LEMMA OwnedFiles ==
  ASSUME NEW created, Owned(created), sweeps' = sweeps, FilesOwned,
         \A g \in Request : Spilled(g)' /\ Held(g)' => (Spilled(g) /\ Held(g)) \/ g \in created
  PROVE  FilesOwned'
BY DEF Owned, FilesOwned

-----------------------------------------------------------------------------
(* One lemma for each action *)

\* Init establishes the invariant.
LEMMA InitInv == Init => IInv
<1> SUFFICES ASSUME Init PROVE IInv
  OBVIOUS
<1> USE DEF Init
<1>1. TypeOK
  <2>1. <<>> \in Seq(Task) /\ <<>> \in Seq(Event) /\ Len(<<>>) = 0
    OBVIOUS
  <2>2. exec \in [Request -> Exec] /\ saving \in [Request -> {"none", "dialog", "copy"}]
    BY Constants
  <2>3. generation \in 0..MaxGeneration /\ sweeps \in 0..MaxSweeps
    BY Bounds
  <2>4. Len(chan) <= ChannelSize
    BY Bounds
  <2>5. response \in Response /\ live \in Live
    BY Constants
  <2>6. files \subseteq Request /\ dirOld \in BOOLEAN
    OBVIOUS
  <2> QED BY <2>1, <2>2, <2>3, <2>4, <2>5, <2>6 DEF TypeOK
<1>2. ShownIsCurrent /\ NoticeBelongs /\ ~InFlight
  BY DEF ShownIsCurrent, NoticeBelongs, InFlight, Idle
<1>3. Progressing /\ SavesBehind
  BY DEF Progressing, SavesBehind, Unsent
<1>4. \A g \in Request : ~Held(g)
  BY DEF Held, Done, Idle, Unsent, Receiving
<1> QED BY <1>1, <1>2, <1>3, <1>4 DEF IInv, FilesOwned

\* Send.
LEMMA SendInv == ASSUME IInv, Send PROVE IInv'
<1> USE DEF Send, IInv
<1>0. PICK g : g = generation + 1
  OBVIOUS
<1>1. g \in Request /\ exec[g] = Unsent /\ generation \in Nat
  BY <1>0, Bounds DEF TypeOK, Progressing, Request
<1>2. \A h \in Request : h # g => exec'[h] = exec[h]
  BY <1>0, <1>1 DEF TypeOK
<1>3. exec'[g] = [Unsent EXCEPT !.at = "connect"]
  BY <1>0, <1>1 DEF TypeOK
<1>4. exec'[g] \in Exec /\ exec'[g].at = "connect" /\ exec'[g].got = 0 /\ exec'[g].failed = FALSE
  <2>1. "connect" \in Place
    BY DEF Place
  <2>2. Unsent.got = 0 /\ Unsent.failed = FALSE
    BY DEF Unsent
  <2> QED BY <1>3, <2>1, <2>2, Constants, Moves
<1>5. TypeOK'
  <2>1. exec' \in [Request -> Exec]
    BY <1>0, <1>1, <1>2, <1>4 DEF TypeOK
  <2>2. response' \in Response
    BY <1>0, <1>1 DEF Response, Idle, None
  <2>3. ready' \in Seq(Task) /\ chan' \in Seq(Event) /\ Len(chan') <= ChannelSize
    BY Bounds
  <2>4. files' \subseteq Request /\ dirOld' \in BOOLEAN
    BY OwnedType
  <2>5. generation' \in 0..MaxGeneration
    BY <1>0, <1>1, Bounds DEF TypeOK, Request
  <2> QED BY <1>0, <1>1, <2>1, <2>2, <2>3, <2>4, <2>5, Constants DEF TypeOK, None
<1>6. ShownIsCurrent' /\ NoticeBelongs' /\ (InFlight => sentOps = generation)'
  BY DEF ShownIsCurrent, NoticeBelongs, Idle
<1>7. Progressing'
  BY <1>0, <1>1, <1>2, <1>4 DEF Progressing, TypeOK, Request
<1>8. SavesBehind'
  <2>1. \A h \in Request : saving[h] # "none" => h <= generation
    BY <1>1 DEF SavesBehind, Done, ShownIsCurrent, Request
  <2> QED BY <1>0, <1>1, <2>1 DEF SavesBehind, Request
<1>9. FilesOwned'
  <2>1. \A h \in Request : Held(h)' => Held(h) \/ h = g
    BY <1>2 DEF Held, Done, Idle
  <2>2. ~Spilled(g)'
    BY <1>4, Bounds DEF Spilled
  <2>3. \A h \in Request : h # g => (Spilled(h)' <=> Spilled(h))
    BY <1>2 DEF Spilled
  <2> QED BY <2>1, <2>2, <2>3, OwnedFiles
<1> QED BY <1>5, <1>6, <1>7, <1>8, <1>9

\* SendRefused changes nothing that the invariant is about.
LEMMA SendRefusedInv == ASSUME IInv, SendRefused PROVE IInv'
<1> USE DEF SendRefused, IInv
<1>1. TypeOK'
  BY DEF TypeOK, None, dirVars
<1>2. ShownIsCurrent' /\ NoticeBelongs' /\ (InFlight => sentOps = generation)'
  BY DEF ShownIsCurrent, NoticeBelongs, Done, InFlight
<1>3. Progressing' /\ SavesBehind' /\ FilesOwned'
  BY DEF Progressing, SavesBehind, FilesOwned, Spilled, Held, Done, dirVars
<1> QED BY <1>1, <1>2, <1>3

\* What Cancel and Clear have in common.
LEMMA SupersedeInv ==
  ASSUME IInv, NEW kind \in {"idle", "cancelled"},
         Supersede(kind), notice' = None \/ (InFlight /\ notice' = notice)
  PROVE  IInv'
<1> USE DEF Supersede, IInv
<1>1. \A g \in Request : exec'[g] \in {exec[g], Gone} /\ (exec[g] = Unsent => exec'[g] = Unsent)
  BY DEF Dropped, Unsent
<1>2. response' \in Response /\ response'.kind = kind
  BY Constants DEF Idle
<1>3. TypeOK'
  <2>1. exec' \in [Request -> Exec]
    BY Constants DEF Dropped, TypeOK
  <2>2. ready' \in Seq(Task) /\ chan' \in Seq(Event) /\ Len(chan') <= ChannelSize
    BY Bounds
  <2>3. files' \subseteq Request /\ dirOld' \in BOOLEAN
    BY OwnedType
  <2>4. generation' \in 0..MaxGeneration
    BY Bounds DEF TypeOK
  <2>5. notice' \in Request \cup {None} /\ sentOps' \in Request \cup {None}
    BY DEF TypeOK
  <2> QED BY <1>2, <2>1, <2>2, <2>3, <2>4, <2>5, Constants DEF TypeOK
<1>4. ShownIsCurrent' /\ (InFlight => sentOps = generation)'
  BY <1>2 DEF ShownIsCurrent, InFlight
<1>5. NoticeBelongs'
  BY DEF NoticeBelongs, InFlight, Done
<1>6. Progressing'
  <2> SUFFICES ASSUME NEW g \in Request
               PROVE  /\ g > generation + 1 => exec'[g] = Unsent
                      /\ exec'[g].at \in {"none", "connect", "head"} => exec'[g].got = 0
                      /\ exec'[g].failed => exec'[g].at \in {"result", "prepared", "gone"}
    BY DEF Progressing
  <2>1. g > generation + 1 => exec[g] = Unsent
    BY Bounds DEF Progressing, TypeOK, Request
  <2>2. CASE exec'[g] = exec[g]
    BY <2>1, <2>2 DEF Progressing
  <2>3. CASE exec'[g] = Gone
    BY <1>1, <2>1, <2>3, Constants
  <2> QED BY <1>1, <2>2, <2>3
<1>7. SavesBehind'
  <2>1. \A h \in Request : saving[h] # "none" => h < generation + 1
    BY Bounds DEF SavesBehind, Done, ShownIsCurrent, Request, TypeOK
  <2> QED BY <2>1 DEF SavesBehind
<1>8. FilesOwned'
  <2>1. \A g \in Request : Spilled(g)' => Spilled(g) /\ exec'[g] = exec[g]
    BY <1>1, Constants, Bounds DEF Spilled
  <2>2. \A g \in Request : Spilled(g)' /\ Held(g)' => Spilled(g) /\ Held(g)
    BY <1>2, <2>1 DEF Held, Done
  <2> QED BY <2>2, OwnedFiles
<1> QED BY <1>3, <1>4, <1>5, <1>6, <1>7, <1>8

\* Cancel.
LEMMA CancelInv == ASSUME IInv, Cancel PROVE IInv'
BY SupersedeInv DEF Cancel

\* Clear.
LEMMA ClearInv == ASSUME IInv, Clear PROVE IInv'
BY SupersedeInv DEF Clear

\* A step that changes the saves only: those that are left are behind, and
\* what is owned afterwards was owned before.
LEMMA SavesInv ==
  ASSUME IInv, saving' \in [Request -> {"none", "dialog", "copy"}],
         UNCHANGED <<uiVars, ready, chan, exec, sweeps>>,
         \A h \in Request : saving'[h] # "none" => saving[h] # "none" \/ Done(h),
         Owned({}) \/ UNCHANGED dirVars
  PROVE  IInv'
<1> USE DEF IInv, uiVars
<1>1. files' \subseteq Request /\ dirOld' \in BOOLEAN
  BY OwnedType DEF dirVars, TypeOK
<1>2. TypeOK'
  BY <1>1 DEF TypeOK
<1>3. ShownIsCurrent' /\ NoticeBelongs' /\ (InFlight => sentOps = generation)' /\ Progressing'
  BY DEF ShownIsCurrent, NoticeBelongs, Done, InFlight, Progressing
<1>4. SavesBehind'
  BY DEF SavesBehind, Done
<1>5. \A h \in Request : Spilled(h)' /\ Held(h)' => Spilled(h) /\ Held(h)
  BY DEF Spilled, Held, Done
<1>6. FilesOwned'
  <2>1. CASE Owned({})
    BY <1>5, <2>1, OwnedFiles
  <2>2. CASE UNCHANGED dirVars
    BY <1>5, <2>2 DEF FilesOwned, dirVars
  <2> QED BY <2>1, <2>2
<1> QED BY <1>2, <1>3, <1>4, <1>6

\* SaveBody.
LEMMA SaveBodyInv == ASSUME IInv, SaveBody PROVE IInv'
<1>1. saving' \in [Request -> {"none", "dialog", "copy"}]
  BY DEF SaveBody, IInv, TypeOK
<1>2. \A h \in Request : saving'[h] # "none" => saving[h] # "none" \/ Done(h)
  BY DEF SaveBody, IInv, TypeOK, Done
<1> QED BY <1>1, <1>2, SavesInv DEF SaveBody

\* SaveAbandoned and SaveChosen.
LEMMA SaveAnsweredInv ==
  ASSUME IInv, NEW g \in Request, SaveAbandoned(g) \/ SaveChosen(g) PROVE IInv'
<1>1. saving' \in [Request -> {"none", "dialog", "copy"}]
  BY DEF SaveAbandoned, SaveChosen, IInv, TypeOK
<1>2. \A h \in Request : saving'[h] # "none" => saving[h] # "none"
  BY DEF SaveAbandoned, SaveChosen, IInv, TypeOK
<1> QED BY <1>1, <1>2, SavesInv DEF SaveAbandoned, SaveChosen

\* SaveDone: a save of the current generation is a save of what is shown.
LEMMA SaveDoneInv == ASSUME IInv, NEW g \in Request, SaveDone(g) PROVE IInv'
<1> USE DEF SaveDone, IInv
<1>1. generation = g => Done(g)
  BY DEF SavesBehind, Request, TypeOK
<1>2. \A h \in Request : saving'[h] # "none" => saving[h] # "none"
  BY DEF TypeOK
<1>3. TypeOK'
  <2>1. files' \subseteq Request /\ dirOld' \in BOOLEAN
    BY OwnedType
  <2>2. saving' \in [Request -> {"none", "dialog", "copy"}]
    BY DEF TypeOK
  <2> QED BY <2>1, <2>2 DEF TypeOK
<1>4. ShownIsCurrent' /\ (InFlight => sentOps = generation)' /\ Progressing'
  BY DEF ShownIsCurrent, InFlight, Progressing
<1>5. NoticeBelongs'
  BY <1>1 DEF NoticeBelongs, Done
<1>6. SavesBehind'
  BY <1>2 DEF SavesBehind, Done
<1>7. FilesOwned'
  <2>1. \A h \in Request : Spilled(h)' /\ Held(h)' => Spilled(h) /\ Held(h)
    BY <1>2 DEF Spilled, Held, Done
  <2> QED BY <2>1, OwnedFiles
<1> QED BY <1>3, <1>4, <1>5, <1>6, <1>7

-----------------------------------------------------------------------------
(* Steps of a request *)

\* A step of request g that changes nothing the user sees, where e is how far
\* the request is after it.
Moved(g, e, created) ==
  /\ exec' = [exec EXCEPT ![g] = e]
  /\ UNCHANGED <<uiVars, saving, sweeps>>
  /\ Owned(created) \/ (created = {} /\ UNCHANGED dirVars)

\* Such a step keeps the invariant when it goes on from a request that was
\* sent, and a body that is owned afterwards was owned before or has just got
\* its file.
LEMMA MovedInv ==
  ASSUME IInv, NEW g \in Request, NEW e \in Exec, NEW created \in SUBSET {g},
         Moved(g, e, created), exec[g].at # "none",
         e.at \in {"none", "connect", "head"} => e.got = 0,
         e.failed => e.at \in {"result", "prepared", "gone"},
         e.got > Threshold =>
           \/ g \in created
           \/ /\ exec[g].got > Threshold
              /\ e.at \in Receiving /\ ~e.failed =>
                   exec[g].at \in Receiving /\ ~exec[g].failed,
         ready' \in Seq(Task), chan' \in Seq(Event), Len(chan') <= ChannelSize
  PROVE  IInv'
<1> USE DEF IInv, Moved, uiVars
<1>1. exec'[g] = e /\ \A h \in Request : h # g => exec'[h] = exec[h]
  BY DEF TypeOK
<1>2. files' \subseteq Request /\ dirOld' \in BOOLEAN
  BY OwnedType DEF dirVars, TypeOK
<1>3. exec' \in [Request -> Exec]
  BY DEF TypeOK
<1>4. TypeOK'
  BY <1>2, <1>3 DEF TypeOK
<1>5. ShownIsCurrent' /\ NoticeBelongs' /\ (InFlight => sentOps = generation)' /\ SavesBehind'
  BY DEF ShownIsCurrent, NoticeBelongs, Done, InFlight, SavesBehind
<1>6. Progressing'
  <2>1. exec[g] # Unsent
    BY DEF Unsent
  <2>2. ~(g > generation)
    BY <2>1 DEF Progressing
  <2> QED BY <1>1, <2>2 DEF Progressing
<1>7. \A h \in Request : Spilled(h)' /\ Held(h)' => (Spilled(h) /\ Held(h)) \/ h \in created
  <2>1. \A h \in Request : h # g => (Spilled(h)' <=> Spilled(h)) /\ (Held(h)' <=> Held(h))
    BY <1>1 DEF Spilled, Held, Done
  <2>2. Spilled(g)' /\ Held(g)' => (Spilled(g) /\ Held(g)) \/ g \in created
    BY <1>1 DEF Spilled, Held, Done
  <2> QED BY <2>1, <2>2
<1>8. FilesOwned'
  <2>1. CASE Owned(created)
    BY <1>7, <2>1, OwnedFiles
  <2>2. CASE created = {} /\ UNCHANGED dirVars
    BY <1>1, <1>7, <2>2 DEF FilesOwned, dirVars
  <2> QED BY <2>1, <2>2
<1> QED BY <1>4, <1>5, <1>6, <1>8

\* Answered.
LEMMA AnsweredInv == ASSUME IInv, NEW g \in Request, Answered(g) PROVE IInv'
<1> USE DEF IInv
<1>1. PICK events \in BOOLEAN : exec' = [exec EXCEPT ![g].at = "head", ![g].sse = events]
  BY DEF Answered
<1> DEFINE e == [exec[g] EXCEPT !.at = "head", !.sse = events]
<1>2. exec[g] \in Exec /\ exec[g].got = 0 /\ ~exec[g].failed /\ exec[g].at = "connect"
  BY DEF Answered, At, TypeOK, Progressing, Exec
<1>3. e \in Exec /\ e.got = 0 /\ e.failed = FALSE /\ e.at = "head"
  <2>1. "head" \in Place
    BY DEF Place
  <2> QED BY <1>2, <2>1 DEF Exec
<1>4. exec' = [exec EXCEPT ![g] = e]
  BY <1>1 DEF TypeOK
<1>5. ready' \in Seq(Task) /\ chan' \in Seq(Event) /\ Len(chan') <= ChannelSize
  BY DEF Answered, TypeOK
<1> HIDE DEF e
<1>6. Moved(g, e, {})
  BY <1>4 DEF Moved, Answered
<1> QED BY <1>2, <1>3, <1>5, <1>6, Bounds, MovedInv

\* A request goes on to place p with what it has received.
LEMMA RelocatedInv ==
  ASSUME IInv, NEW g \in Request, NEW p \in Receiving,
         exec' = [exec EXCEPT ![g].at = p],
         UNCHANGED <<uiVars, saving, dirVars, sweeps>>,
         exec[g].at # "none", ~exec[g].failed,
         exec[g].at \in Receiving \/ exec[g].got = 0,
         ready' \in Seq(Task), chan' \in Seq(Event), Len(chan') <= ChannelSize
  PROVE  IInv'
<1> DEFINE e == [exec[g] EXCEPT !.at = p]
<1>1. p \in Place /\ exec[g] \in Exec
  BY DEF Place, IInv, TypeOK
<1>2. e \in Exec /\ e.at = p /\ e.got = exec[g].got /\ e.failed = exec[g].failed
  BY <1>1, Moves
<1>3. exec' = [exec EXCEPT ![g] = e]
  BY DEF IInv, TypeOK
<1> HIDE DEF e
<1>4. Moved(g, e, {})
  BY <1>3 DEF Moved
<1>5. e.at \notin {"none", "connect", "head"}
  BY <1>2 DEF Receiving
<1>6. exec[g].got = 0 => ~(e.got > Threshold)
  BY <1>2, Bounds
<1>7. exec[g].failed \in BOOLEAN /\ e.failed = exec[g].failed
  BY <1>1, <1>2 DEF Exec
<1> QED BY <1>2, <1>4, <1>5, <1>6, <1>7, MovedInv

\* SendHead, Forward and Report.
LEMMA EmitsInv ==
  ASSUME IInv, NEW g \in Request, SendHead(g) \/ Forward(g) \/ Report(g)
  PROVE  IInv'
<1> USE DEF SendHead, Forward, Report, At
<1>1. ready' \in Seq(Task) /\ chan' \in Seq(Event) /\ Len(chan') <= ChannelSize
  <2>1. {"sse", "plain", "delta", "text", "progress"} \subseteq Event
    BY DEF Event
  <2>2. TypeOK
    BY DEF IInv
  <2>3. CASE UNCHANGED <<chan, ready>>
    BY <2>2, <2>3 DEF TypeOK
  <2>4. CASE \E event \in Event : Emit(g, event) \/ Offer(g, event)
    BY <2>2, <2>4, EmitType
  <2> QED BY <2>1, <2>3, <2>4
<1>2. PICK p \in {"body", "report"} : exec' = [exec EXCEPT ![g].at = p]
  OBVIOUS
<1>3. p \in Receiving
  BY DEF Receiving
<1>4. exec[g].at \in {"head", "forward", "report"} /\ ~exec[g].failed
  BY DEF IInv, Progressing
<1>5. exec[g].at \in Receiving \/ exec[g].got = 0
  BY <1>4 DEF IInv, Progressing, Receiving
<1> QED BY <1>1, <1>2, <1>3, <1>4, <1>5, RelocatedInv

\* PollResult.
LEMMA PollResultInv == ASSUME IInv, NEW g \in Request, PollResult(g) PROVE IInv'
<1> USE DEF PollResult, At
<1>1. ready' \in Seq(Task) /\ chan' \in Seq(Event) /\ Len(chan') <= ChannelSize
  BY DEF IInv, TypeOK
<1>2. {"prepare", "result"} \subseteq Receiving
  BY DEF Receiving
<1> QED BY <1>1, <1>2, RelocatedInv

\* Chunk: the chunk that exceeds the threshold makes the file.
LEMMA ChunkInv == ASSUME IInv, NEW g \in Request, Chunk(g) PROVE IInv'
<1> DEFINE n == exec[g].got + 1
           created == IF n = Threshold + 1 THEN {g} ELSE {}
<1>1. PICK p \in {"forward", "report"}, delta \in {0, n, exec[g].delta} :
        exec' = [exec EXCEPT ![g].at = p, ![g].got = n, ![g].delta = delta]
  BY DEF Chunk
<1> DEFINE e == [exec[g] EXCEPT !.at = p, !.got = n, !.delta = delta]
<1>2. exec[g] \in Exec /\ exec[g].at = "body" /\ ~exec[g].failed /\ exec[g].got < MaxChunks
  BY DEF Chunk, At, IInv, TypeOK, Progressing
<1>3. exec[g].got \in Nat /\ n \in 0..MaxChunks /\ delta \in 0..MaxChunks
  BY <1>2, Bounds DEF Exec
<1>4. e \in Exec /\ e.at = p /\ e.got = n /\ e.failed = exec[g].failed
  <2>1. p \in Place
    BY DEF Place, Receiving
  <2> HIDE DEF n
  <2> QED BY <1>2, <1>3, <2>1 DEF Exec
<1>5. exec' = [exec EXCEPT ![g] = e]
  BY <1>1 DEF IInv, TypeOK
<1>6. ready' \in Seq(Task) /\ chan' \in Seq(Event) /\ Len(chan') <= ChannelSize
  BY DEF Chunk, IInv, TypeOK
<1>7. created \in SUBSET {g} /\ Owned(created)
  BY DEF Chunk
<1>8. n > Threshold => g \in created \/ exec[g].got > Threshold
  BY <1>3, Bounds
<1>9. exec[g].at \in Receiving
  BY <1>2 DEF Receiving
<1> HIDE DEF e, created, n
<1>10. Moved(g, e, created)
  BY <1>5, <1>7 DEF Moved, Chunk
<1> QED BY <1>1, <1>2, <1>4, <1>6, <1>7, <1>8, <1>9, <1>10, MovedInv

\* A result: the request is over, or waits for the UI thread at place p.
LEMMA OnwardInv ==
  ASSUME IInv, NEW g \in Request, NEW p \in {"result", "prepared"}, NEW failed \in BOOLEAN,
         exec' = [exec EXCEPT ![g] = Onward(g, p, failed)],
         UNCHANGED <<uiVars, saving, sweeps>>, Owned({}),
         \/ exec[g].at \in {"body", "prepare"}
         \/ exec[g].at = "connect" /\ failed,
         ready' \in Seq(Task), chan' \in Seq(Event), Len(chan') <= ChannelSize
  PROVE  IInv'
<1> DEFINE e == Onward(g, p, failed)
<1>1. exec[g] \in Exec
  BY DEF IInv, TypeOK
<1>2. CASE Alive(g)
  <2>1. e = [exec[g] EXCEPT !.at = p, !.failed = failed]
    BY <1>2 DEF Onward
  <2>2. e \in Exec /\ e.at = p /\ e.failed = failed /\ e.got = exec[g].got
    <3>1. p \in Place
      BY DEF Place, Receiving
    <3> QED BY <1>1, <2>1, <3>1 DEF Exec
  <2>3. e.got > Threshold => exec[g].at \in Receiving /\ ~exec[g].failed
    BY <2>2, Bounds DEF IInv, Progressing, Receiving
  <2> HIDE DEF e
  <2>4. Moved(g, e, {})
    BY DEF Moved, e
  <2> QED BY <2>2, <2>3, <2>4, MovedInv
<1>3. CASE ~Alive(g)
  <2>1. e = Gone
    BY <1>3 DEF Onward
  <2>2. ~(Gone.got > Threshold)
    BY Bounds, Constants
  <2> HIDE DEF e
  <2>3. Moved(g, e, {})
    BY DEF Moved, e
  <2> QED BY <2>1, <2>2, <2>3, Constants, MovedInv
<1> QED BY <1>2, <1>3

\* Finish, Fail and Prepared.
LEMMA ResultsInv ==
  ASSUME IInv, NEW g \in Request, NEW failed \in BOOLEAN,
         Finish(g, failed) \/ Fail(g) \/ Prepared(g, failed)
  PROVE  IInv'
<1>1. {"events", "result"} \subseteq Task /\ "progress" \in Event
  BY DEF Task, Event
<1>2. ready \in Seq(Task) /\ chan \in Seq(Event) /\ Len(chan) <= ChannelSize
  BY DEF IInv, TypeOK
<1>3. Wake(ready, "result") \in Seq(Task) /\ Wake(Wake(ready, "events"), "result") \in Seq(Task)
  BY <1>1, <1>2, WakeType
<1>4. CASE Finish(g, failed)
  <2>1. Append(chan, "progress") \in Seq(Event) /\ Len(Append(chan, "progress")) = Len(chan) + 1
    BY <1>1, <1>2
  <2>2. \/ chan' = Append(chan, "progress") /\ Len(chan) < ChannelSize
        \/ UNCHANGED chan
    BY <1>4 DEF Finish
  <2>3. ready' \in Seq(Task)
    BY <1>2, <1>3, <1>4 DEF Finish
  <2>4. chan' \in Seq(Event) /\ Len(chan') <= ChannelSize
    BY <1>2, <2>1, <2>2, Bounds
  <2> QED BY <1>4, <2>3, <2>4, OnwardInv DEF Finish, Return, At
<1>5. CASE Fail(g)
  <2>1. ready' \in Seq(Task) /\ chan' \in Seq(Event) /\ Len(chan') <= ChannelSize
    BY <1>2, <1>3, <1>5 DEF Fail
  <2> QED BY <1>5, <2>1, OnwardInv DEF Fail, Return, At
<1>6. CASE Prepared(g, failed)
  <2>1. ready' \in Seq(Task) /\ chan' \in Seq(Event) /\ Len(chan') <= ChannelSize
    BY <1>2, <1>3, <1>6 DEF Prepared
  <2> QED BY <1>6, <2>1, OnwardInv DEF Prepared, At
<1> QED BY <1>4, <1>5, <1>6

\* Abort.
LEMMA AbortInv == ASSUME IInv, NEW g \in Request, Abort(g) PROVE IInv'
<1>1. ready' \in Seq(Task) /\ chan' \in Seq(Event) /\ Len(chan') <= ChannelSize
  BY DEF Abort, IInv, TypeOK
<1>2. ~(Gone.got > Threshold)
  BY Bounds, Constants
<1>3. Moved(g, Gone, {})
  BY DEF Moved, Abort
<1> QED BY <1>1, <1>2, <1>3, Constants, MovedInv DEF Abort

-----------------------------------------------------------------------------
(* The UI thread and other instances *)

\* PollEvents changes what is parsed while in flight, and the channel.
LEMMA PollEventsInv == ASSUME IInv, PollEvents PROVE IInv'
<1> USE DEF PollEvents, IInv
<1>1. live' \in Live
  <2>1. [NoLive EXCEPT !.on = TRUE] \in Live
    BY Constants DEF Live
  <2>2. ASSUME NEW event PROVE Parsed(live, event) \in Live
    <3>1. live \in Live
      BY DEF TypeOK
    <3>2. live.raw < LiveCap => live.raw + 1 \in 0..LiveCap
      BY <3>1, Bounds DEF Live
    <3>3. (live.delta \/ event = "delta") \in BOOLEAN
      BY <3>1 DEF Live
    <3> QED BY <3>1, <3>2, <3>3 DEF Parsed, Live
  <2> QED BY <2>1, <2>2
<1>2. chan' \in Seq(Event) /\ Len(chan') <= ChannelSize
  BY Bounds DEF TypeOK
<1>3. ready' \in Seq(Task)
  BY DEF TypeOK
<1>4. TypeOK'
  BY <1>1, <1>2, <1>3 DEF TypeOK, dirVars
<1>5. ShownIsCurrent' /\ NoticeBelongs' /\ (InFlight => sentOps = generation)'
  BY DEF ShownIsCurrent, NoticeBelongs, Done, InFlight
<1>6. Progressing' /\ SavesBehind' /\ FilesOwned'
  BY DEF Progressing, SavesBehind, FilesOwned, Spilled, Held, Done, dirVars
<1> QED BY <1>4, <1>5, <1>6

\* ApplyOutcome: the answer that arrives is the one of the current generation.
LEMMA ApplyOutcomeInv == ASSUME IInv, NEW g \in Request, ApplyOutcome(g) PROVE IInv'
<1> USE DEF ApplyOutcome, Arrives, At, IInv
<1>1. generation = g /\ sentOps = g /\ InFlight /\ exec[g] \in Exec
  BY DEF Alive, TypeOK
<1>2. \A h \in Request : h # g => exec'[h] = exec[h]
  BY DEF TypeOK
<1>3. exec'[g] \in Exec /\ exec'[g].at = "gone" /\ exec'[g].got = exec[g].got
      /\ exec'[g].failed = exec[g].failed
  <2>1. "gone" \in Place
    BY DEF Place
  <2>2. exec'[g] = [exec[g] EXCEPT !.at = "gone"]
    BY DEF TypeOK
  <2>3. exec[g] \in Exec
    BY <1>1
  <2> HIDE DEF ApplyOutcome, Arrives, At, IInv
  <2> QED BY <2>1, <2>2, <2>3, Moves
<1>4. /\ response' \in Response
      /\ response'.kind = (IF exec[g].failed THEN "failed" ELSE "done")
      /\ response'.send = g /\ response'.ops = g
  <2>1. TimeToFirst(g) \in BOOLEAN
    BY <1>1 DEF TimeToFirst, TypeOK, Exec, Live, Spilled
  <2> HIDE DEF IInv
  <2> QED BY <1>1, <2>1 DEF Idle, Response, None
<1>5. TypeOK'
  <2>1. exec' \in [Request -> Exec]
    BY <1>2, <1>3 DEF TypeOK
  <2>2. ready' \in Seq(Task) /\ chan' \in Seq(Event) /\ Len(chan') <= ChannelSize
    BY Bounds
  <2>3. files' \subseteq Request /\ dirOld' \in BOOLEAN
    BY OwnedType
  <2>4. variables' \in Request \cup {None} /\ sentOps' \in Request \cup {None}
    BY DEF TypeOK
  <2> QED BY <1>4, <2>1, <2>2, <2>3, <2>4, Constants DEF TypeOK
<1>6. ShownIsCurrent' /\ (InFlight => sentOps = generation)'
  BY <1>1, <1>4 DEF ShownIsCurrent, InFlight
<1>7. NoticeBelongs'
  BY <1>1 DEF NoticeBelongs, Done, InFlight
<1>8. Progressing'
  BY <1>1, <1>2, <1>3, Bounds DEF Progressing, TypeOK, Request
<1>9. SavesBehind'
  BY <1>1 DEF SavesBehind, Done, InFlight
<1>10. FilesOwned'
  <2>1. \A h \in Request : Spilled(h)' => Spilled(h)
    BY <1>2, <1>3 DEF Spilled
  <2>2. \A h \in Request : h # g /\ Held(h)' => Held(h)
    BY <1>2, <1>4 DEF Held, Done
  <2>3. Held(g)' => Held(g)
    BY <1>3, <1>4 DEF Held, Done, Receiving
  <2> QED BY <2>1, <2>2, <2>3, OwnedFiles
<1> QED BY <1>5, <1>6, <1>7, <1>8, <1>9, <1>10

\* Day and Sweep: the files that are missing now were swept.
LEMMA OthersInv == ASSUME IInv, Day \/ Sweep PROVE IInv'
<1> USE DEF Day, Sweep, IInv, uiVars
<1>1. TypeOK'
  <2>1. files' \subseteq Request /\ dirOld' \in BOOLEAN
    BY DEF TypeOK
  <2>2. sweeps' \in 0..MaxSweeps
    BY Bounds DEF TypeOK
  <2> QED BY <2>1, <2>2 DEF TypeOK
<1>2. ShownIsCurrent' /\ NoticeBelongs' /\ (InFlight => sentOps = generation)'
  BY DEF ShownIsCurrent, NoticeBelongs, Done, InFlight
<1>3. Progressing' /\ SavesBehind'
  BY DEF Progressing, SavesBehind, Done
<1>4. FilesOwned'
  BY Bounds DEF FilesOwned, Spilled, Held, Done, TypeOK
<1> QED BY <1>1, <1>2, <1>3, <1>4

\* A step that changes nothing.
LEMMA StutterInv == ASSUME IInv, UNCHANGED vars PROVE IInv'
<1> USE DEF vars, uiVars, dirVars, IInv
<1>1. TypeOK'
  BY DEF TypeOK
<1>2. ShownIsCurrent' /\ NoticeBelongs' /\ (InFlight => sentOps = generation)'
  BY DEF ShownIsCurrent, NoticeBelongs, Done, InFlight
<1>3. Progressing' /\ SavesBehind' /\ FilesOwned'
  BY DEF Progressing, SavesBehind, FilesOwned, Spilled, Held, Done
<1> QED BY <1>1, <1>2, <1>3

\* Every step keeps the invariant.
LEMMA StepInv == IInv /\ [Next]_vars => IInv'
<1> SUFFICES ASSUME IInv, [Next]_vars PROVE IInv'
  OBVIOUS
<1>1. CASE User
  BY <1>1, SendInv, SendRefusedInv, CancelInv, ClearInv, SaveBodyInv, SaveAnsweredInv DEF User
<1>2. CASE Polls
  BY <1>2, PollEventsInv, PollResultInv, ApplyOutcomeInv DEF Polls
<1>3. CASE Day \/ Sweep
  BY <1>3, OthersInv
<1>4. ASSUME NEW g \in Request, Server(g) PROVE IInv'
  BY <1>4, AnsweredInv, ChunkInv, ResultsInv DEF Server
<1>5. ASSUME NEW g \in Request, Runs(g) PROVE IInv'
  BY <1>5, EmitsInv, AbortInv, SaveDoneInv, ResultsInv DEF Runs
<1>6. CASE UNCHANGED vars
  BY <1>6, StutterInv
<1> QED BY <1>1, <1>2, <1>3, <1>4, <1>5, <1>6 DEF Next

-----------------------------------------------------------------------------
(* Events in order *)

\* The events of a chunk.
Pieces == {"delta", "text"}

\* A numbering of the events of a channel by the pieces sent before each, when f
\* were sent in all and the first delta is number d; no more are parsed than
\* were sent before the first event that waits.
Numbering(c, l, f, d, num) ==
  /\ \A i \in 1..Len(c) :
       /\ \A j \in 1..Len(c) : i < j => num[i] <= num[j] /\ (c[i] \in Pieces => num[i] < num[j])
       /\ c[i] \in Pieces => num[i] < f
       /\ c[i] = "delta" => num[i] + 1 = d
       /\ l.on => l.raw <= num[i]
  /\ l.on => l.raw <= f

\* What was sent of an event stream and what was parsed of it fit together: the
\* head is first, the pieces are in their order, and a first delta that was sent
\* within the limit was parsed or is still to come.
Follows(c, l, f, d) ==
  /\ ~l.on => c # <<>> /\ c[1] = "sse"
  /\ \A i \in 1..Len(c) : c[i] = "sse" => i = 1 /\ ~l.on
  /\ \E num \in [1..Len(c) -> 0..f] : Numbering(c, l, f, d, num)
  /\ d \in 1..LiveCap /\ d <= f => (l.on /\ l.delta) \/ \E i \in 1..Len(c) : c[i] = "delta"

\* The head of an event stream starts it.
LEMMA FollowsHead ==
  ASSUME NEW l \in Live, ~l.on
  PROVE  Follows(<<"sse">>, l, 0, 0)
<1> DEFINE c == <<"sse">>
           num == [i \in 1..1 |-> 0]
<1>1. Len(c) = 1 /\ c # <<>> /\ c[1] = "sse" /\ "sse" \notin Pieces
  BY DEF Pieces
<1> HIDE DEF c
<1>2. num \in [1..Len(c) -> 0..0]
  BY <1>1
<1>3. Numbering(c, l, 0, 0, num)
  BY <1>1 DEF Numbering
<1> HIDE DEF num
<1>4. Follows(c, l, 0, 0)
  BY <1>1, <1>2, <1>3 DEF Follows
<1> QED BY <1>4 DEF c

\* Another event is sent.
LEMMA FollowsSend ==
  ASSUME NEW c \in Seq(Event), NEW l \in Live, NEW f \in Nat, NEW d \in Nat, Follows(c, l, f, d),
         NEW e \in Event, e # "sse", e = "delta" => d = f + 1,
         NEW n \in Nat, n = IF e \in Pieces THEN f + 1 ELSE f,
         d = f + 1 /\ e \in Pieces => e = "delta"
  PROVE  Follows(Append(c, e), l, n, d)
<1> DEFINE b == Append(c, e)
           k == Len(c) + 1
<1>1. /\ Len(c) \in Nat /\ Len(b) = k /\ b # <<>> /\ b[k] = e
      /\ \A i \in 1..Len(c) : b[i] = c[i]
      /\ \A i \in 1..k : i \in 1..Len(c) \/ i = k
  OBVIOUS
<1>2. PICK num \in [1..Len(c) -> 0..f] : Numbering(c, l, f, d, num)
  BY DEF Follows
<1> DEFINE more == [i \in 1..k |-> IF i = k THEN f ELSE num[i]]
<1>3. more \in [1..k -> 0..n]
  BY <1>1, <1>2
<1>4. more[k] = f /\ \A i \in 1..Len(c) : more[i] = num[i] /\ num[i] \in 0..f /\ i < k /\ i \in 1..k
  BY <1>1, <1>2
<1> HIDE DEF b, more, k
<1>5. Numbering(b, l, n, d, more)
  <2>1. l.on => l.raw <= f
    BY <1>2 DEF Numbering
  <2>2. l.raw \in Nat /\ k \in Nat
    BY <1>1, Bounds DEF Live, k
  <2>3. ASSUME NEW i \in 1..k, NEW j \in 1..k, i < j
        PROVE  more[i] <= more[j] /\ (b[i] \in Pieces => more[i] < more[j])
    <3>1. i \in 1..Len(c)
      BY <2>2, <2>3, <1>1
    <3>2. CASE j = k
      BY <3>1, <3>2, <1>1, <1>2, <1>4 DEF Numbering
    <3>3. CASE j \in 1..Len(c)
      BY <3>1, <3>3, <2>3, <1>1, <1>2, <1>4 DEF Numbering
    <3> QED BY <3>2, <3>3, <1>1
  <2>4. ASSUME NEW i \in 1..k
        PROVE  /\ b[i] \in Pieces => more[i] < n
               /\ b[i] = "delta" => more[i] + 1 = d
               /\ l.on => l.raw <= more[i]
    <3>1. CASE i = k
      BY <3>1, <2>1, <1>1, <1>4
    <3>2. CASE i \in 1..Len(c)
      BY <3>2, <1>1, <1>2, <1>4 DEF Numbering
    <3> QED BY <3>1, <3>2, <1>1
  <2>5. l.on => l.raw <= n
    BY <2>1, <2>2
  <2> QED BY <2>3, <2>4, <2>5, <1>1 DEF Numbering
<1>6. ~l.on => b # <<>> /\ b[1] = "sse"
  <2>1. SUFFICES ASSUME ~l.on PROVE b[1] = "sse"
    BY <1>1
  <2>2. c # <<>> /\ c[1] = "sse"
    BY <2>1 DEF Follows
  <2>3. 1 \in 1..Len(c)
    BY <2>2
  <2> QED BY <2>2, <2>3, <1>1
<1>7. \A i \in 1..k : b[i] = "sse" => i = 1 /\ ~l.on
  BY <1>1 DEF Follows
<1>8. d \in 1..LiveCap /\ d <= n => (l.on /\ l.delta) \/ \E i \in 1..k : b[i] = "delta"
  <2>1. SUFFICES ASSUME d \in 1..LiveCap, d <= n, ~(l.on /\ l.delta) PROVE \E i \in 1..k : b[i] = "delta"
    OBVIOUS
  <2>2. k \in 1..k
    BY <1>1 DEF k
  <2>3. CASE d <= f
    <3>1. PICK i \in 1..Len(c) : c[i] = "delta"
      BY <2>1, <2>3 DEF Follows
    <3> QED BY <3>1, <1>1, <1>4
  <2>4. CASE ~(d <= f)
    <3>1. d = f + 1 /\ e \in Pieces
      BY <2>1, <2>4
    <3> QED BY <3>1, <2>2, <1>1
  <2> QED BY <2>3, <2>4
<1>9. Follows(b, l, n, d)
  BY <1>1, <1>3, <1>5, <1>6, <1>7, <1>8 DEF Follows
<1> QED BY <1>9 DEF b

\* The first delta turns up after all that was sent.
LEMMA FollowsChoose ==
  ASSUME NEW c \in Seq(Event), NEW l \in Live, NEW f \in Nat, Follows(c, l, f, 0), NEW d \in Nat, d > f
  PROVE  Follows(c, l, f, d)
<1>1. PICK num \in [1..Len(c) -> 0..f] : Numbering(c, l, f, 0, num)
  BY DEF Follows
<1>2. \A i \in 1..Len(c) : c[i] # "delta"
  <2>1. ASSUME NEW i \in 1..Len(c), c[i] = "delta" PROVE FALSE
    <3>1. num[i] + 1 = 0 /\ num[i] \in 0..f
      BY <2>1, <1>1 DEF Numbering
    <3> QED BY <3>1
  <2> QED BY <2>1
<1>3. Numbering(c, l, f, d, num)
  BY <1>1, <1>2 DEF Numbering
<1> QED BY <1>1, <1>3 DEF Follows

\* What becomes of what is parsed when an event is read.
Read(l, event) ==
  IF event = "sse" THEN [NoLive EXCEPT !.on = TRUE] ELSE Parsed(l, event)

\* An event is read.
LEMMA FollowsRead ==
  ASSUME NEW c \in Seq(Event), NEW l \in Live, NEW f \in Nat, NEW d \in Nat, Follows(c, l, f, d),
         c # <<>>, NEW m \in Live, m = Read(l, Head(c))
  PROVE  Follows(Tail(c), m, f, d)
<1> DEFINE b == Tail(c)
           k == Len(b)
<1>1. /\ Len(c) = k + 1 /\ k \in Nat /\ Head(c) = c[1] /\ 1 \in 1..Len(c)
      /\ \A i \in 1..k : b[i] = c[i + 1] /\ i + 1 \in 1..Len(c)
      /\ \A i \in 1..Len(c) : i = 1 \/ (i - 1 \in 1..k /\ b[i - 1] = c[i])
  OBVIOUS
<1>2. PICK num \in [1..Len(c) -> 0..f] : Numbering(c, l, f, d, num)
  BY DEF Follows
<1> DEFINE rest == [i \in 1..k |-> num[i + 1]]
<1>3. rest \in [1..k -> 0..f] /\ \A i \in 1..k : rest[i] = num[i + 1] /\ num[i + 1] \in 0..f
  BY <1>1, <1>2
<1> HIDE DEF b, k, rest
<1>4. \A i \in 1..Len(c) : i > 1 => c[i] # "sse"
  BY <1>1 DEF Follows
<1>5. CASE c[1] = "sse"
  <2>1. m = [on |-> TRUE, raw |-> 0, delta |-> FALSE] /\ ~l.on
    BY <1>1, <1>5 DEF Read, NoLive, Follows
  <2>2. Numbering(b, m, f, d, rest)
    <3>1. \A i, j \in 1..k : i < j => i + 1 < j + 1
      BY <1>1
    <3> QED BY <3>1, <2>1, <1>1, <1>2, <1>3 DEF Numbering, k
  <2>3. d \in 1..LiveCap /\ d <= f => \E i \in 1..k : b[i] = "delta"
    <3>1. SUFFICES ASSUME d \in 1..LiveCap, d <= f PROVE \E i \in 1..k : b[i] = "delta"
      OBVIOUS
    <3>2. PICK i \in 1..Len(c) : c[i] = "delta"
      BY <3>1, <2>1 DEF Follows
    <3> QED BY <3>2, <1>1, <1>5
  <2>4. \A i \in 1..k : b[i] # "sse"
    <3>1. \A i \in 1..k : i + 1 > 1
      BY <1>1
    <3> QED BY <3>1, <1>1, <1>4
  <2> QED BY <2>1, <2>2, <2>3, <2>4, <1>3 DEF Follows, b, k
<1>6. CASE c[1] # "sse"
  <2>1. l.on
    BY <1>6 DEF Follows
  <2>2. /\ m = IF c[1] \in Pieces /\ l.raw < LiveCap
               THEN [l EXCEPT !.raw = l.raw + 1, !.delta = l.delta \/ c[1] = "delta"]
               ELSE l
    BY <2>1, <1>1, <1>6 DEF Read, Parsed, Pieces
  <2>3. /\ m.on /\ l.raw \in Nat /\ l.delta \in BOOLEAN
        /\ m.raw = l.raw \/ (m.raw = l.raw + 1 /\ c[1] \in Pieces)
        /\ l.delta => m.delta
        /\ c[1] = "delta" /\ l.raw < LiveCap => m.delta
    <3>1. l.raw \in Nat /\ l.delta \in BOOLEAN /\ l.on \in BOOLEAN
      BY Bounds DEF Live
    <3> QED BY <3>1, <2>1, <2>2 DEF Live, Pieces
  <2>4. Numbering(b, m, f, d, rest)
    <3>1. num[1] \in 0..f /\ l.raw <= num[1] /\ (c[1] \in Pieces => num[1] < f)
      BY <2>1, <1>1, <1>2 DEF Numbering
    <3>2. m.raw <= f
      BY <3>1, <2>3
    <3>3. ASSUME NEW i \in 1..k PROVE m.raw <= rest[i]
      <4>1. 1 < i + 1 /\ i + 1 \in 1..Len(c)
        BY <1>1
      <4>2. num[1] <= num[i + 1] /\ (c[1] \in Pieces => num[1] < num[i + 1])
        BY <4>1, <1>1, <1>2 DEF Numbering
      <4> QED BY <4>2, <3>1, <2>3, <1>3
    <3>4. ASSUME NEW i \in 1..k, NEW j \in 1..k, i < j
          PROVE  rest[i] <= rest[j] /\ (b[i] \in Pieces => rest[i] < rest[j])
      <4>1. i + 1 < j + 1 /\ i + 1 \in 1..Len(c) /\ j + 1 \in 1..Len(c)
        BY <3>4, <1>1
      <4> QED BY <4>1, <1>1, <1>2, <1>3 DEF Numbering
    <3>5. ASSUME NEW i \in 1..k
          PROVE  /\ b[i] \in Pieces => rest[i] < f
                 /\ b[i] = "delta" => rest[i] + 1 = d
      BY <1>1, <1>2, <1>3 DEF Numbering
    <3> QED BY <3>2, <3>3, <3>4, <3>5 DEF Numbering, k
  <2>5. d \in 1..LiveCap /\ d <= f => (m.on /\ m.delta) \/ \E i \in 1..k : b[i] = "delta"
    <3>1. SUFFICES ASSUME d \in 1..LiveCap, d <= f, ~m.delta PROVE \E i \in 1..k : b[i] = "delta"
      BY <2>3
    <3>2. PICK i \in 1..Len(c) : c[i] = "delta"
      BY <3>1, <2>1, <2>3 DEF Follows
    <3>3. i # 1
      <4>1. SUFFICES ASSUME i = 1 PROVE FALSE
        OBVIOUS
      <4>2. l.raw <= num[1] /\ num[1] + 1 = d /\ num[1] \in 0..f
        BY <4>1, <3>2, <2>1, <1>1, <1>2 DEF Numbering
      <4>3. l.raw < LiveCap
        BY <4>2, <3>1, <2>3, Bounds
      <4> QED BY <4>1, <4>3, <3>1, <3>2, <2>3
    <3> QED BY <3>2, <3>3, <1>1
  <2>6. \A i \in 1..k : b[i] # "sse"
    <3>1. \A i \in 1..k : i + 1 > 1
      BY <1>1
    <3> QED BY <3>1, <1>1, <1>4
  <2> QED BY <2>3, <2>4, <2>5, <2>6, <1>3 DEF Follows, b, k
<1> QED BY <1>5, <1>6

\* When no event waits, the first delta was parsed.
LEMMA FollowsEnd ==
  ASSUME NEW l, NEW f, NEW d \in 1..LiveCap, Follows(<<>>, l, f, d), d <= f
  PROVE  l.delta
BY DEF Follows

-----------------------------------------------------------------------------
(* The order of events and result *)

\* The pieces of request g that were sent.
Forwarded(g) == IF exec[g].at = "forward" THEN exec[g].got - 1 ELSE exec[g].got

\* The tasks that are woken while a request with these events waiting is at p.
Queue(c, p) ==
  IF p \in {"result", "prepared"}
  THEN IF c = <<>> THEN <<"result">> ELSE <<"events", "result">>
  ELSE IF c = <<>> THEN <<>> ELSE <<"events">>

\* The task that reads the events is woken exactly as long as some wait, and
\* before the one that waits for the result, which comes after the last of them.
Woken ==
  /\ ~InFlight => ready = <<>> /\ chan = <<>>
  /\ \A g \in Request : Alive(g) =>
       /\ exec[g].at \notin {"none", "gone"}
       /\ exec[g].at \in {"connect", "head", "prepare", "prepared"} => chan = <<>>
       /\ ready = Queue(chan, exec[g].at)

\* What was parsed follows what was sent.
Streams ==
  \A g \in Request :
    /\ exec[g].delta <= exec[g].got
    /\ exec[g].at = "connect" => ~exec[g].sse
    /\ exec[g].at = "forward" => exec[g].got > 0 /\ exec[g].sse
    /\ Alive(g) => IF exec[g].at \in Receiving
                   THEN exec[g].sse => Follows(chan, live, Forwarded(g), exec[g].delta)
                   ELSE ~live.on

\* Nothing happens any more to a request whose answer is shown.
Settled == \A g \in Request : Done(g) => exec[g].at = "gone"

\* The invariant behind FirstDeltaKnown.
SInv == Woken /\ Streams /\ Settled /\ FirstDeltaKnown

\* A step of request g, seen or not: e is how far the request is after it, l what
\* is parsed, as before.
LEMMA StepSInv ==
  ASSUME IInv, SInv, NEW g \in Request, NEW e \in Exec,
         exec' = [exec EXCEPT ![g] = e],
         UNCHANGED <<response, live>>,
         exec[g].at # "gone",
         e.delta <= e.got, e.at # "connect", e.at = "forward" => e.got > 0 /\ e.sse,
         ~Alive(g) => UNCHANGED <<chan, ready>>,
         Alive(g) =>
           /\ e.at \notin {"none", "gone"}
           /\ e.at \in {"connect", "head", "prepare", "prepared"} => chan' = <<>>
           /\ ready' = Queue(chan', e.at)
           /\ IF e.at \in Receiving
              THEN e.sse => Follows(chan', live, IF e.at = "forward" THEN e.got - 1 ELSE e.got, e.delta)
              ELSE ~live.on
  PROVE  SInv'
<1>1. exec'[g] = e /\ \A h \in Request : h # g => exec'[h] = exec[h]
  BY DEF IInv, TypeOK
<1>2. \A h \in Request : (Alive(h)' <=> Alive(h)) /\ (Done(h)' <=> Done(h))
  BY DEF Alive, Done, InFlight
<1>3. \A h \in Request : Alive(h) /\ h # g => ~Alive(g)
  BY DEF Alive
<1>4. Woken'
  <2>1. ~InFlight' => ready' = <<>> /\ chan' = <<>>
    BY DEF InFlight, Alive, SInv, Woken
  <2>2. ASSUME NEW h \in Request, Alive(h)
        PROVE  /\ exec'[h].at \notin {"none", "gone"}
               /\ exec'[h].at \in {"connect", "head", "prepare", "prepared"} => chan' = <<>>
               /\ ready' = Queue(chan', exec'[h].at)
    BY <2>2, <1>1, <1>3 DEF SInv, Woken
  <2> QED BY <2>1, <2>2, <1>2 DEF Woken
<1>5. Streams'
  <2> DEFINE Fine(h, x, c) ==
        /\ x.delta <= x.got
        /\ x.at = "connect" => ~x.sse
        /\ x.at = "forward" => x.got > 0 /\ x.sse
        /\ Alive(h) => IF x.at \in Receiving
                       THEN x.sse => Follows(c, live, IF x.at = "forward" THEN x.got - 1 ELSE x.got,
                                             x.delta)
                       ELSE ~live.on
  <2>1. Fine(g, e, chan')
    OBVIOUS
  <2>2. \A h \in Request : Fine(h, exec[h], chan)
    BY DEF SInv, Streams, Forwarded
  <2>3. \A h \in Request : h # g => Fine(h, exec[h], chan')
    BY <2>2, <1>3
  <2>4. \A h \in Request : Fine(h, exec'[h], chan')
    <3> HIDE DEF Fine
    <3> QED BY <2>1, <2>3, <1>1
  <2> QED BY <2>4, <1>2 DEF Streams, Forwarded
<1>6. \A h \in Request : Done(h) => exec'[h] = exec[h]
  BY <1>1 DEF SInv, Settled
<1>7. Settled'
  BY <1>2, <1>6 DEF SInv, Settled
<1>8. FirstDeltaKnown'
  BY <1>2, <1>6 DEF SInv, FirstDeltaKnown, Spilled
<1> QED BY <1>4, <1>5, <1>7, <1>8 DEF SInv

\* Waking one task, or both, in the queues there are.
LEMMA Wakes ==
  /\ \A c, p : p \notin {"result", "prepared"} => Wake(Queue(c, p), "events") = <<"events">>
  /\ Wake(<<>>, "result") = <<"result">>
  /\ Wake(<<"events">>, "result") = <<"events", "result">>
  /\ \A c, p : p \notin {"result", "prepared"} => Wake(Queue(c, p), "result") = Queue(c, "result")
<1>1. Wake(<<>>, "events") = <<"events">> /\ Wake(<<>>, "result") = <<"result">>
  BY DEF Wake
<1>2. Wake(<<"events">>, "events") = <<"events">>
  BY DEF Wake
<1>3. Wake(<<"events">>, "result") = <<"events", "result">>
  <2> DEFINE q == <<"events">>
  <2>1. DOMAIN q = 1..1 /\ q[1] = "events"
    OBVIOUS
  <2>2. ~\E i \in DOMAIN q : q[i] = "result"
    <3> HIDE DEF q
    <3> QED BY <2>1
  <2>3. Append(q, "result") = <<"events", "result">>
    <3>1. q \in Seq(Task) /\ Len(q) = 1 /\ "result" \in Task
      BY DEF Task
    <3>2. <<"events", "result">> \in Seq(Task) /\ Len(<<"events", "result">>) = 2
      BY DEF Task
    <3> HIDE DEF q
    <3>3. Append(q, "result") \in Seq(Task)
      BY <3>1, AppendProperties
    <3>4. Len(Append(q, "result")) = 2
      BY <3>1, AppendProperties
    <3>5. Append(q, "result")[1] = "events"
      BY <2>1, <3>1, AppendProperties
    <3>6. Append(q, "result")[2] = "result"
      BY <3>1, AppendProperties
    <3> DEFINE r == Append(q, "result")
               t == <<"events", "result">>
    <3>7. t[1] = "events" /\ t[2] = "result"
      OBVIOUS
    <3>8. r \in Seq(Task) /\ t \in Seq(Task) /\ Len(r) = Len(t)
      BY <3>2, <3>3, <3>4
    <3>9. \A i \in 1..Len(r) : r[i] = t[i]
      <4>1. \A i \in 1..2 : i = 1 \/ i = 2
        OBVIOUS
      <4>2. Len(r) = 2 /\ r[1] = "events" /\ r[2] = "result"
        BY <3>4, <3>5, <3>6
      <4> HIDE DEF r, t
      <4> QED BY <4>1, <4>2, <3>7
    <3> HIDE DEF r, t
    <3>10. r = t
      BY <3>8, <3>9, SeqEqual
    <3> QED BY <3>10 DEF r, t
  <2> QED BY <2>2, <2>3 DEF Wake
<1> QED BY <1>1, <1>2, <1>3 DEF Queue

\* The task that is polled leaves the queue.
LEMMA Polled ==
  /\ Head(<<"result">>) = "result" /\ Tail(<<"result">>) = <<>>
  /\ Head(<<"events">>) = "events" /\ Tail(<<"events">>) = <<>>
  /\ Head(<<"events", "result">>) = "events" /\ Tail(<<"events", "result">>) = <<"result">>
  /\ <<>> # <<"events">> /\ <<>> # <<"result">> /\ <<>> # <<"events", "result">>
  OBVIOUS

\* The answer's head is there, and is sent.
LEMMA HeadSInv ==
  ASSUME IInv, SInv, NEW g \in Request, Answered(g) \/ SendHead(g)
  PROVE  SInv'
<1>1. exec[g] \in Exec /\ exec[g].got = 0 /\ exec[g].delta = 0
  <2>1. exec[g] \in Exec
    BY DEF IInv, TypeOK
  <2>2. exec[g].got = 0 /\ exec[g].delta <= 0
    BY DEF Answered, SendHead, At, IInv, Progressing, SInv, Streams
  <2> QED BY <2>1, <2>2, Bounds DEF Exec
<1>2. {"head", "body"} \subseteq Place /\ "body" \in Receiving /\ "head" \notin Receiving
      /\ "connect" \notin Receiving
  BY DEF Place, Receiving
<1>3. CASE Answered(g)
  <2>1. PICK events \in BOOLEAN : exec' = [exec EXCEPT ![g].at = "head", ![g].sse = events]
    BY <1>3 DEF Answered
  <2> DEFINE e == [exec[g] EXCEPT !.at = "head", !.sse = events]
  <2>2. e \in Exec /\ e.at = "head" /\ e.got = 0 /\ e.delta = 0
    BY <1>1, <1>2 DEF Exec
  <2>3. exec' = [exec EXCEPT ![g] = e]
    BY <2>1 DEF IInv, TypeOK
  <2>4. exec[g].at = "connect" /\ UNCHANGED <<response, live, chan, ready>>
    BY <1>3 DEF Answered, At, uiVars
  <2>5. Alive(g) => chan = <<>> /\ ready = <<>> /\ ~live.on
    BY <2>4, <1>2 DEF SInv, Woken, Streams, Queue
  <2>6. Queue(<<>>, "head") = <<>>
    BY DEF Queue
  <2> HIDE DEF e
  <2>7. e.delta <= e.got /\ exec[g].at # "gone" /\ e.at \notin Receiving
        /\ e.at \notin {"none", "gone", "connect", "forward"}
    BY <2>2, <2>4, <1>2
  <2>8. Alive(g) => chan' = <<>> /\ ready' = Queue(chan', e.at) /\ ~live.on
    BY <2>2, <2>4, <2>5, <2>6
  <2> QED BY <2>2, <2>3, <2>4, <2>7, <2>8, StepSInv
<1>4. CASE SendHead(g)
  <2> DEFINE e == [exec[g] EXCEPT !.at = "body"]
             head == IF exec[g].sse THEN "sse" ELSE "plain"
  <2>1. e \in Exec /\ e.at = "body" /\ e.got = 0 /\ e.delta = 0 /\ e.sse = exec[g].sse
    BY <1>1, <1>2 DEF Exec
  <2>2. exec' = [exec EXCEPT ![g] = e] /\ exec[g].at = "head" /\ UNCHANGED <<response, live>>
    BY <1>4 DEF SendHead, At, uiVars, IInv, TypeOK
  <2>3. ~Alive(g) => UNCHANGED <<chan, ready>>
    BY <1>4 DEF SendHead, Emit
  <2>4. Alive(g) => /\ chan' = <<head>> /\ ready' = <<"events">> /\ ~live.on
    <3>1. SUFFICES ASSUME Alive(g) PROVE chan' = <<head>> /\ ready' = <<"events">> /\ ~live.on
      OBVIOUS
    <3>2. chan = <<>> /\ ready = <<>> /\ ~live.on
      BY <3>1, <2>2, <1>2 DEF SInv, Woken, Streams, Queue
    <3>3. chan' = Append(chan, head) /\ ready' = Wake(ready, "events")
      BY <3>1, <1>4 DEF SendHead, Emit
    <3>4. Wake(<<>>, "events") = <<"events">>
      BY DEF Wake
    <3> QED BY <3>2, <3>3, <3>4
  <2>5. Queue(<<head>>, "body") = <<"events">>
    BY DEF Queue
  <2>6. Alive(g) /\ e.sse => Follows(chan', live, 0, 0)
    <3>1. live \in Live
      BY DEF IInv, TypeOK
    <3> QED BY <3>1, <2>1, <2>4, FollowsHead
  <2> HIDE DEF e, head
  <2>7. e.delta <= e.got /\ exec[g].at # "gone" /\ e.at \in Receiving
        /\ e.at \notin {"none", "gone", "connect", "head", "prepare", "prepared", "forward"}
    BY <2>1, <2>2, <1>2
  <2>8. Alive(g) => ready' = Queue(chan', e.at)
    BY <2>1, <2>4, <2>5
  <2> QED BY <2>1, <2>2, <2>3, <2>6, <2>7, <2>8, StepSInv
<1> QED BY <1>3, <1>4

\* A chunk arrives; it may have the first delta.
LEMMA ChunkSInv ==
  ASSUME IInv, SInv, NEW g \in Request, Chunk(g)
  PROVE  SInv'
<1> DEFINE n == exec[g].got + 1
           p == IF exec[g].sse THEN "forward" ELSE "report"
<1>1. PICK delta \in (IF exec[g].sse /\ exec[g].delta = 0 THEN {0, n} ELSE {exec[g].delta}) :
        exec' = [exec EXCEPT ![g].at = p, ![g].got = n, ![g].delta = delta]
  BY DEF Chunk
<1>2. /\ exec[g] \in Exec /\ exec[g].at = "body" /\ exec[g].got < MaxChunks
      /\ UNCHANGED <<response, live, chan, ready>>
  BY DEF Chunk, At, IInv, TypeOK, uiVars
<1>3. /\ exec[g].got \in Nat /\ exec[g].delta \in Nat /\ exec[g].sse \in BOOLEAN
      /\ exec[g].delta <= exec[g].got
  BY <1>2, Bounds DEF Exec, SInv, Streams
<1>4. n \in 0..MaxChunks /\ n > 0 /\ delta \in 0..MaxChunks /\ delta <= n
      /\ n - 1 = exec[g].got
  <2>1. exec[g].delta \in 0..MaxChunks
    BY <1>2 DEF Exec
  <2> QED BY <2>1, <1>2, <1>3, Bounds
<1>5. p \in Receiving /\ p \in Place /\ "body" \in Receiving
  BY DEF Receiving, Place
<1> DEFINE e == [exec[g] EXCEPT !.at = p, !.got = n, !.delta = delta]
<1>6. e \in Exec /\ e.at = p /\ e.got = n /\ e.delta = delta /\ e.sse = exec[g].sse
  <2> HIDE DEF n, p
  <2> QED BY <1>2, <1>4, <1>5 DEF Exec
<1>7. exec' = [exec EXCEPT ![g] = e]
  BY <1>1 DEF IInv, TypeOK
<1>8. Alive(g) /\ e.sse => Follows(chan', live, n - 1, delta) /\ p = "forward"
  <2>1. SUFFICES ASSUME Alive(g), e.sse PROVE Follows(chan, live, exec[g].got, delta)
    BY <1>2, <1>4, <1>6
  <2>2. Follows(chan, live, exec[g].got, exec[g].delta)
    BY <2>1, <1>2, <1>5, <1>6 DEF SInv, Streams, Forwarded
  <2>3. CASE delta = exec[g].delta
    BY <2>2, <2>3
  <2>4. CASE delta # exec[g].delta
    <3>1. exec[g].delta = 0 /\ delta = n /\ n > exec[g].got /\ n \in Nat
      BY <2>4, <1>1, <1>3
    <3>2. chan \in Seq(Event) /\ live \in Live
      BY DEF IInv, TypeOK
    <3> HIDE DEF n
    <3> QED BY <2>2, <3>1, <3>2, <1>3, FollowsChoose
  <2> QED BY <2>3, <2>4
<1>9. Alive(g) => ready' = Queue(chan', p) /\ p \notin {"connect", "head", "prepare", "prepared"}
  BY <1>2 DEF SInv, Woken, Queue
<1>10. p = "forward" => exec[g].sse
  BY <1>3
<1>11. p \in {"forward", "report"}
  OBVIOUS
<1> HIDE DEF e, n, p
<1> QED BY <1>2, <1>4, <1>5, <1>6, <1>7, <1>8, <1>9, <1>10, <1>11, StepSInv

\* A piece is sent, or progress; progress may be left out.
LEMMA SentSInv ==
  ASSUME IInv, SInv, NEW g \in Request, Forward(g) \/ Report(g)
  PROVE  SInv'
<1> DEFINE p == IF exec[g].at = "forward" THEN "report" ELSE "body"
           e == [exec[g] EXCEPT !.at = p]
           f == Forwarded(g)
<1>1. /\ exec[g] \in Exec /\ exec[g].at \in {"forward", "report"}
      /\ exec' = [exec EXCEPT ![g] = e]
      /\ UNCHANGED <<response, live>>
  BY DEF Forward, Report, At, uiVars, IInv, TypeOK
<1>2. p \in Place /\ {"forward", "report", p} \subseteq Receiving
  BY DEF Place, Receiving
<1>3. /\ e \in Exec /\ e.at = p /\ e.got = exec[g].got /\ e.delta = exec[g].delta
      /\ e.sse = exec[g].sse
  BY <1>1, <1>2 DEF Exec
<1>4. /\ exec[g].got \in Nat /\ exec[g].delta \in Nat /\ exec[g].delta <= exec[g].got
      /\ exec[g].at = "forward" => exec[g].got > 0 /\ exec[g].sse /\ f = exec[g].got - 1
      /\ exec[g].at = "report" => f = exec[g].got
      /\ f \in Nat
  BY <1>1, Bounds DEF Exec, SInv, Streams, Forwarded
<1>5. chan \in Seq(Event) /\ live \in Live
  BY DEF IInv, TypeOK
<1>6. ~Alive(g) => UNCHANGED <<chan, ready>>
  BY DEF Forward, Report, Emit, Offer
<1> DEFINE event == IF exec[g].at = "forward"
                    THEN IF exec[g].delta = exec[g].got THEN "delta" ELSE "text"
                    ELSE "progress"
<1>7. \/ chan' = Append(chan, event) /\ ready' = Wake(ready, "events")
      \/ exec[g].at = "report" /\ UNCHANGED <<chan, ready>>
      \/ ~Alive(g)
  BY DEF Forward, Report, Emit, Offer, At
<1>8. ASSUME Alive(g)
      PROVE  /\ ready' = Queue(chan', p)
             /\ e.sse => Follows(chan', live, e.got, e.delta)
  <2>1. ready = Queue(chan, exec[g].at) /\ p \notin {"result", "prepared"}
    BY <1>8 DEF SInv, Woken
  <2>2. exec[g].sse => Follows(chan, live, f, exec[g].delta)
    BY <1>1, <1>2, <1>8 DEF SInv, Streams
  <2>3. CASE exec[g].at = "report" /\ UNCHANGED <<chan, ready>>
    <3>1. Queue(chan, "report") = Queue(chan, p)
      BY <2>1 DEF Queue
    <3>2. f = e.got
      BY <2>3, <1>3, <1>4
    <3> HIDE DEF p, f, e
    <3> QED BY <2>1, <2>2, <2>3, <3>1, <3>2, <1>3
  <2>4. CASE chan' = Append(chan, event) /\ ready' = Wake(ready, "events")
    <3>1. event \in Event /\ event # "sse" /\ chan' # <<>>
      BY <2>4, <1>5 DEF Event
    <3>2. ready' = <<"events">>
      BY <2>1, <2>4, <1>1, Wakes
    <3>3. Queue(chan', p) = <<"events">>
      BY <2>1, <3>1 DEF Queue
    <3>4. /\ e.got = IF event \in Pieces THEN f + 1 ELSE f
          /\ event = "delta" => e.delta = f + 1
          /\ e.delta = f + 1 /\ event \in Pieces => event = "delta"
      BY <1>1, <1>3, <1>4 DEF Pieces
    <3>5. e.sse => Follows(chan, live, f, e.delta)
      BY <2>2, <1>3
    <3>6. e.got \in Nat /\ e.delta \in Nat
      BY <1>3, <1>4
    <3> HIDE DEF event, f, e, p
    <3>7. e.sse => Follows(chan', live, e.got, e.delta)
      BY <2>4, <3>1, <3>4, <3>5, <3>6, <1>4, <1>5, FollowsSend
    <3> QED BY <3>2, <3>3, <3>7
  <2> QED BY <2>3, <2>4, <1>7, <1>8
<1>9. p \in {"report", "body"} /\ p # "forward"
  OBVIOUS
<1> HIDE DEF e, p, event, f
<1> QED BY <1>1, <1>2, <1>3, <1>4, <1>6, <1>8, <1>9, StepSInv

\* A result of request g: it waits for the UI thread at p, or is dropped.
LEMMA OnwardSInv ==
  ASSUME IInv, SInv, NEW g \in Request, NEW p \in {"result", "prepared"}, NEW failed \in BOOLEAN,
         exec' = [exec EXCEPT ![g] = Onward(g, p, failed)],
         UNCHANGED <<response, live>>,
         exec[g].at # "gone",
         ~Alive(g) => UNCHANGED <<chan, ready>>,
         Alive(g) =>
           /\ p = "prepared" => chan' = <<>>
           /\ ready' = Queue(chan', p)
           /\ exec[g].sse => Follows(chan', live, exec[g].got, exec[g].delta)
  PROVE  SInv'
<1> DEFINE e == Onward(g, p, failed)
<1>1. exec[g] \in Exec /\ exec[g].delta <= exec[g].got
  BY DEF IInv, TypeOK, SInv, Streams
<1>2. p \in Receiving /\ p \in Place
      /\ p \notin {"none", "gone", "connect", "head", "prepare", "forward"}
  BY DEF Receiving, Place
<1>3. CASE Alive(g)
  <2>1. /\ e \in Exec /\ e.at = p /\ e.got = exec[g].got /\ e.delta = exec[g].delta
        /\ e.sse = exec[g].sse
    BY <1>1, <1>2, <1>3 DEF Onward, Exec
  <2> HIDE DEF e
  <2> QED BY <2>1, <1>1, <1>2, <1>3, StepSInv DEF e
<1>4. CASE ~Alive(g)
  <2>1. e \in Exec /\ e.delta = 0 /\ e.got = 0 /\ e.at = "gone"
    BY <1>4, Constants DEF Onward, Gone, Unsent
  <2>2. e.delta <= e.got /\ e.at # "connect" /\ e.at # "forward"
    BY <2>1
  <2>3. exec' = [exec EXCEPT ![g] = e]
    OBVIOUS
  <2> HIDE DEF e
  <2> QED BY <2>1, <2>2, <2>3, <1>4, StepSInv
<1> QED BY <1>3, <1>4

\* Finish, Fail and Prepared.
LEMMA ResultsSInv ==
  ASSUME IInv, SInv, NEW g \in Request, NEW failed \in BOOLEAN,
         Finish(g, failed) \/ Fail(g) \/ Prepared(g, failed)
  PROVE  SInv'
<1>1. /\ UNCHANGED <<response, live>> /\ exec[g].at # "gone"
      /\ ~Alive(g) => UNCHANGED <<chan, ready>>
  BY DEF Finish, Fail, Prepared, Return, At, uiVars
<1>2. /\ chan \in Seq(Event) /\ live \in Live /\ "body" \in Receiving /\ "prepare" \in Receiving
      /\ "connect" \notin Receiving
      /\ exec[g] \in Exec
  BY DEF IInv, TypeOK, Receiving
<1>3. exec[g].got \in Nat /\ exec[g].delta \in Nat
  BY <1>2, Bounds DEF Exec
<1>4. Alive(g) => ready = Queue(chan, exec[g].at)
  BY DEF SInv, Woken
<1>5. Alive(g) /\ exec[g].at \in {"body", "prepare"} /\ exec[g].sse =>
        Follows(chan, live, exec[g].got, exec[g].delta)
  BY <1>2 DEF SInv, Streams, Forwarded
<1>6. CASE Finish(g, failed)
  <2>1. exec' = [exec EXCEPT ![g] = Onward(g, "result", failed)] /\ exec[g].at = "body"
    BY <1>6 DEF Finish, Return, At
  <2>2. ASSUME Alive(g)
        PROVE  /\ ready' = Queue(chan', "result")
               /\ exec[g].sse => Follows(chan', live, exec[g].got, exec[g].delta)
    <3>1. CASE Len(chan) < ChannelSize
      <4>1. chan' = Append(chan, "progress") /\ ready' = Wake(Wake(ready, "events"), "result")
        BY <2>2, <3>1, <1>6 DEF Finish
      <4>2. ready' = <<"events", "result">>
        BY <2>1, <2>2, <4>1, <1>4, Wakes
      <4>3. chan' # <<>> /\ "progress" \in Event /\ "progress" \notin Pieces
        BY <4>1, <1>2 DEF Event, Pieces
      <4>4. exec[g].sse => Follows(chan', live, exec[g].got, exec[g].delta)
        BY <2>1, <2>2, <4>1, <4>3, <1>2, <1>3, <1>5, FollowsSend
      <4> QED BY <4>2, <4>3, <4>4 DEF Queue
    <3>2. CASE ~(Len(chan) < ChannelSize)
      <4>1. ready' = Wake(ready, "result") /\ UNCHANGED chan
        BY <2>2, <3>2, <1>6 DEF Finish
      <4> QED BY <2>1, <2>2, <4>1, <1>1, <1>4, <1>5, Wakes
    <3> QED BY <3>1, <3>2
  <2> QED BY <2>1, <2>2, <1>1, OnwardSInv
<1>7. CASE Fail(g)
  <2>1. exec' = [exec EXCEPT ![g] = Onward(g, "result", TRUE)] /\ UNCHANGED chan
        /\ exec[g].at \in {"connect", "body"}
    BY <1>7 DEF Fail, Return, At
  <2>2. Alive(g) => ready' = Queue(chan', "result")
    BY <2>1, <1>4, <1>7, Wakes DEF Fail
  <2>3. exec[g].sse => exec[g].at = "body"
    BY <2>1 DEF SInv, Streams
  <2> QED BY <2>1, <2>2, <2>3, <1>1, <1>5, OnwardSInv
<1>8. CASE Prepared(g, failed)
  <2>1. exec' = [exec EXCEPT ![g] = Onward(g, "prepared", failed)] /\ UNCHANGED chan
        /\ exec[g].at = "prepare"
    BY <1>8 DEF Prepared, At
  <2>2. Alive(g) => chan = <<>> /\ ready' = Wake(ready, "result")
    BY <2>1, <1>8 DEF Prepared, SInv, Woken
  <2>3. Queue(<<>>, "result") = Queue(<<>>, "prepared")
    BY DEF Queue
  <2>4. Alive(g) => chan' = <<>> /\ ready' = Queue(chan', "prepared")
    BY <2>1, <2>2, <2>3, <1>4, Wakes
  <2> QED BY <2>1, <2>4, <1>1, <1>5, OnwardSInv
<1> QED BY <1>6, <1>7, <1>8

\* Abort.
LEMMA AbortSInv ==
  ASSUME IInv, SInv, NEW g \in Request, Abort(g)
  PROVE  SInv'
<1>1. /\ exec' = [exec EXCEPT ![g] = Gone] /\ UNCHANGED <<response, live, chan, ready>>
      /\ ~Alive(g) /\ exec[g].at # "gone"
  BY DEF Abort, uiVars
<1>2. Gone \in Exec /\ Gone.delta = 0 /\ Gone.got = 0 /\ Gone.at = "gone"
  BY Constants DEF Gone, Unsent
<1>3. Gone.delta <= Gone.got /\ Gone.at # "connect" /\ Gone.at # "forward"
  BY <1>2
<1> QED BY <1>1, <1>2, <1>3, StepSInv

\* PollResult: every event was read.
LEMMA PollResultSInv ==
  ASSUME IInv, SInv, NEW g \in Request, PollResult(g)
  PROVE  SInv'
<1> DEFINE e == [exec[g] EXCEPT !.at = "prepare"]
<1>1. exec[g] \in Exec /\ exec[g].delta <= exec[g].got
  BY DEF IInv, TypeOK, SInv, Streams
<1>2. /\ exec' = [exec EXCEPT ![g] = e] /\ UNCHANGED <<response, live, chan>>
      /\ Alive(g) /\ exec[g].at = "result" /\ Head(ready) = "result" /\ ready' = Tail(ready)
  BY DEF PollResult, At, uiVars, IInv, TypeOK
<1>3. "prepare" \in Place /\ {"result", "prepare"} \subseteq Receiving
  BY DEF Place, Receiving
<1>4. /\ e \in Exec /\ e.at = "prepare" /\ e.got = exec[g].got /\ e.delta = exec[g].delta
      /\ e.sse = exec[g].sse
  BY <1>1, <1>3 DEF Exec
<1>5. ready = Queue(chan, "result")
  BY <1>2 DEF SInv, Woken
<1>6. chan = <<>> /\ ready = <<"result">>
  BY <1>2, <1>5, Polled DEF Queue
<1>7. ready' = Queue(chan', e.at)
  BY <1>2, <1>4, <1>6, Polled DEF Queue
<1>8. e.sse => Follows(chan', live, e.got, e.delta)
  BY <1>2, <1>3, <1>4 DEF SInv, Streams, Forwarded
<1> HIDE DEF e
<1> QED BY <1>1, <1>2, <1>3, <1>4, <1>6, <1>7, <1>8, StepSInv

\* PollEvents: an event is read; the task sleeps when it was the last one.
LEMMA PollEventsSInv == ASSUME IInv, SInv, PollEvents PROVE SInv'
<1>1. /\ ready # <<>> /\ Head(ready) = "events" /\ chan # <<>>
      /\ live' = Read(live, Head(chan)) /\ chan' = Tail(chan)
      /\ ready' = IF Len(chan) = 1 THEN Tail(ready) ELSE ready
      /\ UNCHANGED <<response, exec>>
  BY DEF PollEvents, Read
<1>2. /\ chan \in Seq(Event) /\ live \in Live
      /\ \A g \in Request : exec[g] \in Exec
  BY DEF IInv, TypeOK
<1>3. live' \in Live
  BY PollEventsInv DEF IInv, TypeOK
<1>4. Len(chan) = 1 <=> chan' = <<>>
  <2>1. Tail(chan) \in Seq(Event) /\ Len(Tail(chan)) = Len(chan) - 1 /\ Len(chan) \in Nat
    BY <1>1, <1>2
  <2>2. Len(Tail(chan)) = 0 <=> Tail(chan) = <<>>
    BY <2>1, EmptySeq
  <2> QED BY <2>1, <2>2, <1>1
<1>5. InFlight /\ InFlight'
  BY <1>1 DEF SInv, Woken, InFlight
<1>6. \A g \in Request : (Alive(g)' <=> Alive(g)) /\ ~Done(g)' /\ exec'[g] = exec[g]
  BY <1>1, <1>5 DEF Alive, Done, InFlight
<1>7. ASSUME NEW g \in Request, Alive(g)
      PROVE  exec[g].at \in Receiving \ {"prepare", "prepared"} /\ ready = Queue(chan, exec[g].at)
  <2>1. exec[g].at \in Place
    BY <1>2 DEF Exec
  <2> QED BY <2>1, <1>1, <1>7 DEF SInv, Woken, Place
<1>8. Woken'
  <2>1. ASSUME NEW g \in Request, Alive(g)
        PROVE  ready' = Queue(chan', exec[g].at)
    <3>1. CASE chan' = <<>>
      BY <3>1, <2>1, <1>1, <1>4, <1>7, Polled DEF Queue
    <3>2. CASE chan' # <<>>
      BY <3>2, <2>1, <1>1, <1>4, <1>7 DEF Queue
    <3> QED BY <3>1, <3>2
  <2>2. \A g \in Request : Alive(g) =>
          exec[g].at \notin {"none", "gone", "connect", "head", "prepare", "prepared"}
    BY <1>7 DEF Receiving
  <2> QED BY <2>1, <2>2, <1>5, <1>6 DEF Woken
<1>9. Streams'
  <2>1. ASSUME NEW g \in Request, Alive(g), exec[g].sse
        PROVE  Follows(chan', live', Forwarded(g), exec[g].delta)
    <3>1. Follows(chan, live, Forwarded(g), exec[g].delta)
      BY <2>1, <1>7 DEF SInv, Streams
    <3>2. Forwarded(g) \in Nat /\ exec[g].delta \in Nat
      BY <1>2, Bounds DEF Exec, Forwarded, SInv, Streams
    <3> QED BY <3>1, <3>2, <1>1, <1>2, <1>3, FollowsRead
  <2>2. \A g \in Request : Forwarded(g)' = Forwarded(g)
    BY <1>6 DEF Forwarded
  <2> QED BY <2>1, <2>2, <1>6, <1>7 DEF SInv, Streams
<1>10. Settled' /\ FirstDeltaKnown'
  BY <1>6 DEF Settled, FirstDeltaKnown
<1> QED BY <1>8, <1>9, <1>10 DEF SInv

\* Send: a new request has received nothing.
LEMMA SendSInv == ASSUME IInv, SInv, Send PROVE SInv'
<1> DEFINE g == generation + 1
<1>1. g \in Request /\ g > generation
  BY Bounds DEF Send, IInv, TypeOK, Request
<1>2. exec[g] = Unsent
  BY <1>1 DEF IInv, Progressing
<1>3. /\ exec' = [exec EXCEPT ![g].at = "connect"]
      /\ response' = [Idle EXCEPT !.kind = "inflight", !.send = g]
      /\ live' = NoLive /\ ready' = <<>> /\ chan' = <<>>
  BY DEF Send
<1>4. \A h \in Request : h # g => exec'[h] = exec[h]
  BY <1>1, <1>3 DEF IInv, TypeOK
<1>5. exec'[g].at = "connect" /\ exec'[g].delta = 0 /\ exec'[g].got = 0 /\ exec'[g].sse = FALSE
  BY <1>1, <1>2, <1>3 DEF IInv, TypeOK, Unsent
<1>6. InFlight' /\ \A h \in Request : (Alive(h)' <=> h = g) /\ ~Done(h)'
  BY <1>3 DEF InFlight, Alive, Done, Idle
<1> HIDE DEF g
<1>7. Woken'
  BY <1>3, <1>5, <1>6 DEF Woken, Queue
<1>8. Streams'
  <2>1. "connect" \notin Receiving /\ live'.on = FALSE /\ 0 <= 0
    BY <1>3 DEF Receiving, NoLive
  <2>2. \A h \in Request : exec'[h].delta <= exec'[h].got
    BY <2>1, <1>4, <1>5 DEF SInv, Streams
  <2>3. \A h \in Request : /\ exec'[h].at = "connect" => ~exec'[h].sse
                           /\ exec'[h].at = "forward" => exec'[h].got > 0 /\ exec'[h].sse
    BY <1>4, <1>5 DEF SInv, Streams
  <2> QED BY <2>1, <2>2, <2>3, <1>5, <1>6 DEF Streams
<1>9. Settled' /\ FirstDeltaKnown'
  BY <1>6 DEF Settled, FirstDeltaKnown
<1> QED BY <1>7, <1>8, <1>9 DEF SInv

\* A step after which nothing is in flight; some requests are over.
LEMMA QuietSInv ==
  ASSUME SInv, ~InFlight', ready' = <<>>, chan' = <<>>,
         \A h \in Request : \/ exec'[h] = exec[h]
                            \/ exec'[h].at = "gone" /\ exec'[h].delta <= exec'[h].got,
         Settled', FirstDeltaKnown'
  PROVE  SInv'
<1>1. \A h \in Request : ~Alive(h)'
  BY DEF Alive
<1>2. Woken'
  BY <1>1 DEF Woken
<1>3. Streams'
  BY <1>1 DEF SInv, Streams
<1> QED BY <1>2, <1>3 DEF SInv

\* Cancel and Clear.
LEMMA SupersedeSInv ==
  ASSUME IInv, SInv, NEW kind \in {"idle", "cancelled"}, Supersede(kind)
  PROVE  SInv'
<1>1. response'.kind = kind /\ ready' = <<>> /\ chan' = <<>> /\ exec' = Dropped
  BY DEF Supersede, Idle
<1>2. ~InFlight' /\ \A h \in Request : ~Done(h)'
  BY <1>1 DEF InFlight, Done
<1>3. Gone.at = "gone" /\ Gone.delta <= Gone.got
  BY DEF Gone, Unsent
<1>4. \A h \in Request : exec'[h] = exec[h] \/ exec'[h] = Gone
  BY <1>1 DEF Dropped
<1>5. Settled' /\ FirstDeltaKnown'
  BY <1>2 DEF Settled, FirstDeltaKnown
<1> QED BY <1>1, <1>2, <1>3, <1>4, <1>5, QuietSInv

\* ApplyOutcome: every event was read before.
LEMMA ApplyOutcomeSInv == ASSUME IInv, SInv, NEW g \in Request, ApplyOutcome(g) PROVE SInv'
<1>1. /\ Alive(g) /\ exec[g].at \in {"prepared", "result"}
      /\ ~exec[g].failed => exec[g].at = "prepared"
      /\ ready' = <<>> /\ chan' = <<>>
      /\ exec' = [exec EXCEPT ![g].at = "gone"]
  BY DEF ApplyOutcome, Arrives, At
<1>2. /\ response'.kind = (IF exec[g].failed THEN "failed" ELSE "done")
      /\ ~exec[g].failed => response'.send = g /\ response'.ttft = TimeToFirst(g)
  BY DEF ApplyOutcome, Idle
<1>3. exec[g] \in Exec
  BY DEF IInv, TypeOK
<1>4. /\ exec'[g].at = "gone" /\ exec'[g].got = exec[g].got /\ exec'[g].delta = exec[g].delta
      /\ exec'[g].sse = exec[g].sse
      /\ \A h \in Request : h # g => exec'[h] = exec[h]
  BY <1>1, <1>3 DEF IInv, TypeOK, Exec
<1>5. ~InFlight'
  BY <1>2 DEF InFlight
<1>6. \A h \in Request : Done(h)' => h = g /\ ~exec[g].failed
  BY <1>2 DEF Done
<1>7. Settled'
  BY <1>4, <1>6 DEF Settled
<1>8. FirstDeltaKnown'
  <2>1. SUFFICES ASSUME ~exec[g].failed, exec[g].sse, ~Spilled(g), exec[g].delta \in 1..LiveCap
                 PROVE  live.delta
    BY <1>2, <1>4, <1>6 DEF FirstDeltaKnown, Spilled, TimeToFirst
  <2>2. exec[g].at = "prepared" /\ "prepared" \in Receiving
    BY <2>1, <1>1 DEF Receiving
  <2>3. chan = <<>> /\ Follows(chan, live, exec[g].got, exec[g].delta)
        /\ exec[g].delta <= exec[g].got
    BY <2>1, <2>2, <1>1 DEF SInv, Woken, Streams, Forwarded
  <2> QED BY <2>1, <2>3, FollowsEnd
<1>9. exec'[g].delta <= exec'[g].got
  BY <1>4 DEF SInv, Streams
<1> QED BY <1>1, <1>4, <1>5, <1>7, <1>8, <1>9, QuietSInv

\* Steps that change neither a request nor what the UI thread has of it.
LEMMA UnseenSInv ==
  ASSUME SInv, UNCHANGED <<response, live, ready, chan, exec>>
  PROVE  SInv'
<1>1. \A g \in Request : /\ Alive(g)' <=> Alive(g)
                         /\ Done(g)' <=> Done(g)
                         /\ Forwarded(g)' = Forwarded(g)
  BY DEF Alive, Done, InFlight, Forwarded
<1>2. Woken'
  BY <1>1 DEF SInv, Woken, InFlight
<1>3. Streams'
  BY <1>1 DEF SInv, Streams
<1>4. Settled' /\ FirstDeltaKnown'
  BY <1>1 DEF SInv, Settled, FirstDeltaKnown, Spilled
<1> QED BY <1>2, <1>3, <1>4 DEF SInv

\* Nothing has been sent at the start.
LEMMA InitSInv == Init => SInv
<1> SUFFICES ASSUME Init PROVE SInv
  OBVIOUS
<1>1. \A g \in Request : ~Alive(g) /\ ~Done(g) /\ exec[g] = Unsent
  BY DEF Init, Alive, Done, InFlight, Idle
<1>2. Unsent.delta <= Unsent.got /\ Unsent.at = "none"
  BY DEF Unsent
<1>3. ready = <<>> /\ chan = <<>>
  BY DEF Init
<1> QED BY <1>1, <1>2, <1>3 DEF SInv, Woken, Streams, Settled, FirstDeltaKnown

\* Every step keeps events and result in order.
LEMMA StepsSInv == IInv /\ SInv /\ [Next]_vars => SInv'
<1> SUFFICES ASSUME IInv, SInv, [Next]_vars PROVE SInv'
  OBVIOUS
<1>1. CASE User
  <2>1. ASSUME NEW g \in Request, SaveAbandoned(g) \/ SaveChosen(g) PROVE SInv'
    BY <2>1, UnseenSInv DEF SaveAbandoned, SaveChosen, uiVars
  <2>2. CASE SendRefused \/ SaveBody
    BY <2>2, UnseenSInv DEF SendRefused, SaveBody, uiVars
  <2> QED BY <1>1, <2>1, <2>2, SendSInv, SupersedeSInv DEF User, Cancel, Clear
<1>2. CASE Polls
  BY <1>2, PollEventsSInv, PollResultSInv, ApplyOutcomeSInv DEF Polls
<1>3. CASE Day \/ Sweep
  BY <1>3, UnseenSInv DEF Day, Sweep, uiVars
<1>4. ASSUME NEW g \in Request, Server(g) PROVE SInv'
  BY <1>4, HeadSInv, ChunkSInv, ResultsSInv DEF Server
<1>5. ASSUME NEW g \in Request, Runs(g) PROVE SInv'
  <2>1. CASE SaveDone(g)
    BY <2>1, UnseenSInv DEF SaveDone, uiVars
  <2> QED BY <1>5, <2>1, HeadSInv, SentSInv, AbortSInv, ResultsSInv DEF Runs
<1>6. CASE UNCHANGED vars
  BY <1>6, UnseenSInv DEF vars, uiVars
<1> QED BY <1>1, <1>2, <1>3, <1>4, <1>5, <1>6 DEF Next

-----------------------------------------------------------------------------
(* The theorems *)

\* The invariant of the exchange holds in every state.
THEOREM ExchangeInvariance == Spec => []IInv
<1> QED BY InitInv, StepInv, PTL DEF Spec

\* The state of an exchange has its type: no event is sent into a full channel,
\* and no more is parsed while in flight than the limit allows.
THEOREM ExchangeTypeCorrect == Spec => []TypeOK
<1>1. IInv => TypeOK
  BY DEF IInv
<1> QED BY <1>1, ExchangeInvariance, PTL

\* A tab shows the answer to its last request only, with that request's own
\* operations, and no late answer writes variables.
THEOREM AnswersAreCurrent == Spec => []ShownIsCurrent
<1>1. IInv => ShownIsCurrent
  BY DEF IInv
<1> QED BY <1>1, ExchangeInvariance, PTL

\* A save is reported beside the response it saved only.
THEOREM NoticesBelong == Spec => []NoticeBelongs
<1>1. IInv => NoticeBelongs
  BY DEF IInv
<1> QED BY <1>1, ExchangeInvariance, PTL

\* What a tab shows belongs to its last send, for any number of earlier ones.
THEOREM AnswersBelong == Spec => []ShownBelongs
<1>1. IInv => ShownBelongs
  BY DEF IInv, ShownBelongs
<1> QED BY <1>1, ExchangeInvariance, PTL

\* A spilled body keeps its file as long as it is shown or being saved, unless
\* another instance sweeps the directory.
THEOREM SpillFilesKept == Spec => []SpillFileKept
<1>1. IInv => SpillFileKept
  BY DEF IInv, FilesOwned, SpillFileKept, Held
<1> QED BY <1>1, ExchangeInvariance, PTL

\* The response of an event stream knows when its first delta came, whatever the
\* capacity of the channel and the limit of what is parsed: the result is never
\* polled before the last event, and no chunk is lost.
THEOREM FirstDeltasKnown == Spec => []FirstDeltaKnown
<1>1. SInv => FirstDeltaKnown
  BY DEF SInv
<1> QED BY <1>1, InitInv, StepInv, InitSInv, StepsSInv, PTL DEF Spec

-----------------------------------------------------------------------------
(* Folds over sequences *)

Below == {pair \in Nat \X Nat : pair[1] < pair[2]}

LEMMA BelowFounded == IsWellFoundedOn(Below, Nat)
BY NatLessThanWellFounded, Zenon DEF OpToRel, Below

\* Induction over a set of numbers, and over one of sequences.
LEMMA AllNumbers ==
  ASSUME NEW Good, 0 \in Good, \A n \in Nat : n \in Good => n + 1 \in Good
  PROVE  Nat \subseteq Good
<1> DEFINE bad == Nat \ Good
<1>1. SUFFICES ASSUME bad # {} PROVE FALSE
  OBVIOUS
<1>2. PICK n \in bad : \A m \in bad : ~ (<<m, n>> \in Below)
  <2>1. bad \subseteq Nat
    OBVIOUS
  <2> HIDE DEF bad
  <2> QED BY <1>1, <2>1, BelowFounded, WFMin
<1>3. n \in Nat /\ n # 0 /\ n - 1 \in Nat /\ n - 1 < n
  OBVIOUS
<1>4. n - 1 \in Good
  BY <1>2, <1>3 DEF Below
<1> QED BY <1>3, <1>4

LEMMA AllSequences ==
  ASSUME NEW S, NEW Good, <<>> \in Good,
         \A s \in Seq(S), x \in S : s \in Good => Append(s, x) \in Good
  PROVE  Seq(S) \subseteq Good
<1> DEFINE Long == {n \in Nat : \A s \in Seq(S) : Len(s) = n => s \in Good}
<1>1. 0 \in Long
  BY EmptySeq
<1>2. ASSUME NEW n \in Nat, n \in Long PROVE n + 1 \in Long
  <2>1. SUFFICES ASSUME NEW s \in Seq(S), Len(s) = n + 1 PROVE s \in Good
    OBVIOUS
  <2> DEFINE t == SubSeq(s, 1, n)
  <2>2. t \in Seq(S) /\ Len(t) = n /\ s[n + 1] \in S /\ s = Append(t, s[n + 1])
    BY <2>1
  <2> HIDE DEF t
  <2> QED BY <2>2, <1>2
<1> HIDE DEF Long
<1>3. Nat \subseteq Long
  BY <1>1, <1>2, AllNumbers
<1> QED BY <1>3 DEF Long

-----------------------------------------------------------------------------
(* Folds *)

\* One step of the folds of the model.
SplitStep(pieces, x) == IF x = "nl" THEN Append(pieces, <<>>) ELSE [pieces EXCEPT ![Len(pieces)] = Append(@, x)]
TakePiece(out, piece) == TakeLine(out, Decoded(WithoutReturn(piece)))
MaskWhole(st, x) == MaskStep(x[1], x[2], st, x[3])
Kept(st, c) == IF c = Mask THEN st ELSE Append(st, c)
Left(st, x) == IF x[3] \in x[2] THEN st ELSE Append(st, x[1][x[3]])

FoldStep(kind, st, x) ==
  CASE kind = "split" -> SplitStep(st, x)
    [] kind = "take" -> TakePiece(st, x)
    [] kind = "replay" -> StreamPush(st, x)
    [] kind = "mask" -> MaskWhole(st, x)
    [] kind = "masks" -> Masked(st, x)
    [] kind = "unmask" -> Kept(st, x)
    [] kind = "without" -> Left(st, x)
    [] kind = "lay" -> PrettyStep(st, x)
    [] kind = "squeeze" -> Squeeze(st, x)

IsFold(f, kind, base, s, n) ==
  f = [X \in SUBSET (1..n) |-> IF X = {} THEN base ELSE FoldStep(kind, f[X \ {Max(X)}], s[Max(X)])]

LEMMA MaxOf ==
  ASSUME NEW n \in Nat, NEW X \in SUBSET (1..n), n \in X
  PROVE  Max(X) = n
<1>1. \A y \in X : n >= y
  OBVIOUS
<1>2. Max(X) \in X /\ \A y \in X : Max(X) >= y
  BY <1>1, Zenon DEF Max
<1> DEFINE m == Max(X)
<1> HIDE DEF m
<1>3. m \in X /\ m >= n
  BY <1>2 DEF m
<1>4. m \in Nat /\ m <= n
  BY <1>3
<1> QED BY <1>3, <1>4 DEF m

LEMMA FoldExists ==
  ASSUME NEW kind, NEW base, NEW s, NEW n \in Nat
  PROVE  \E f : IsFold(f, kind, base, s, n)
<1> DEFINE Good == {k \in Nat : \E f : IsFold(f, kind, base, s, k)}
<1>1. 0 \in Good
  <2> DEFINE f == [X \in SUBSET (1..0) |-> base]
  <2>1. \A X \in SUBSET (1..0) : X = {}
    OBVIOUS
  <2>2. IsFold(f, kind, base, s, 0)
    BY <2>1 DEF IsFold
  <2> QED BY <2>2
<1>2. ASSUME NEW k \in Nat, k \in Good PROVE k + 1 \in Good
  <2>1. PICK f : IsFold(f, kind, base, s, k)
    BY <1>2
  <2> DEFINE g == [X \in SUBSET (1..(k + 1)) |->
                     IF X = {} THEN base
                     ELSE IF k + 1 \in X THEN FoldStep(kind, f[X \ {k + 1}], s[k + 1]) ELSE f[X]]
  <2>2. ASSUME NEW X \in SUBSET (1..(k + 1)), X # {}
        PROVE  g[X] = FoldStep(kind, g[X \ {Max(X)}], s[Max(X)])
    <3>1. \A Y \in SUBSET (1..k) : Y \in SUBSET (1..(k + 1)) /\ g[Y] = f[Y]
      BY <2>1 DEF IsFold
    <3>2. CASE k + 1 \in X
      <4>1. Max(X) = k + 1 /\ X \ {k + 1} \in SUBSET (1..k)
        BY <3>2, MaxOf
      <4> QED BY <3>1, <3>2, <4>1, <2>2
    <3>3. CASE k + 1 \notin X
      <4>1. X \in SUBSET (1..k)
        <5>1. \A i \in X : i \in 1..k
          BY <3>3
        <5> QED BY <5>1, Zenon
      <4>2. f[X] = FoldStep(kind, f[X \ {Max(X)}], s[Max(X)])
        BY <2>1, <2>2, <4>1 DEF IsFold
      <4>3. X \ {Max(X)} \in SUBSET (1..k)
        BY <4>1
      <4>4. g[X] = f[X] /\ g[X \ {Max(X)}] = f[X \ {Max(X)}]
        BY <3>1, <4>1, <4>3, Zenon
      <4> QED BY <4>2, <4>4, Zenon
    <3> QED BY <3>2, <3>3
  <2>3. g = [X \in SUBSET (1..(k + 1)) |-> IF X = {} THEN base ELSE FoldStep(kind, g[X \ {Max(X)}], s[Max(X)])]
    BY <2>2
  <2>4. IsFold(g, kind, base, s, k + 1)
    BY <2>3 DEF IsFold
  <2> QED BY <2>4
<1> HIDE DEF Good
<1>3. Nat \subseteq Good
  BY <1>1, <1>2, AllNumbers
<1> QED BY <1>3 DEF Good

\* A fold goes on from the fold of what is before the last element.
LEMMA FoldStarts ==
  ASSUME NEW kind, NEW base, NEW s, NEW n \in Nat, NEW f, IsFold(f, kind, base, s, n)
  PROVE  f[{}] = base
BY DEF IsFold

LEMMA FoldSteps ==
  ASSUME NEW kind, NEW base, NEW s, NEW n \in Nat, NEW f, IsFold(f, kind, base, s, n),
         NEW k \in Nat, k + 1 <= n
  PROVE  f[1..(k + 1)] = FoldStep(kind, f[1..k], s[k + 1])
<1> DEFINE X == 1..(k + 1)
<1>1. X \in SUBSET (1..n) /\ k + 1 \in X /\ X \ {k + 1} = 1..k
  OBVIOUS
<1>2. Max(X) = k + 1
  BY MaxOf
<1> HIDE DEF X
<1>3. f[X] = FoldStep(kind, f[X \ {k + 1}], s[k + 1])
  BY <1>1, <1>2 DEF IsFold
<1> QED BY <1>1, <1>3 DEF X

SameUpTo(s, t, n) == \A i \in 1..n : s[i] = t[i]

LEMMA FoldsAgree ==
  ASSUME NEW kind, NEW base, NEW s, NEW t, NEW n \in Nat, NEW k \in Nat, n <= k,
         SameUpTo(s, t, n),
         NEW f, IsFold(f, kind, base, s, n), NEW g, IsFold(g, kind, base, t, k)
  PROVE  f[1..n] = g[1..n]
<1> DEFINE Good == {m \in Nat : m <= n => f[1..m] = g[1..m]}
<1>1. 0 \in Good
  <2>1. 1..0 = {}
    OBVIOUS
  <2>2. f[{}] = base /\ g[{}] = base
    BY FoldStarts
  <2> QED BY <2>1, <2>2
<1>2. ASSUME NEW m \in Nat, m \in Good PROVE m + 1 \in Good
  <2>1. SUFFICES ASSUME m + 1 <= n PROVE f[1..(m + 1)] = g[1..(m + 1)]
    OBVIOUS
  <2>2. f[1..(m + 1)] = FoldStep(kind, f[1..m], s[m + 1])
    <3>1. m \in Nat /\ n \in Nat /\ m + 1 <= n /\ IsFold(f, kind, base, s, n)
      BY <2>1
    <3> QED BY ONLY <3>1, FoldSteps
  <2>3. m + 1 <= k
    BY <2>1
  <2>4. g[1..(m + 1)] = FoldStep(kind, g[1..m], t[m + 1])
    BY <2>3, FoldSteps
  <2>5. f[1..m] = g[1..m] /\ s[m + 1] = t[m + 1]
    BY <1>2, <2>1 DEF SameUpTo
  <2> QED BY <2>2, <2>4, <2>5
<1> HIDE DEF Good
<1>3. Nat \subseteq Good
  BY <1>1, <1>2, AllNumbers
<1> QED BY <1>3 DEF Good

\* What a fold of the model is.
Folded(kind, base, s) == (CHOOSE f : IsFold(f, kind, base, s, Len(s)))[1..Len(s)]

LEMMA ChosenFold ==
  ASSUME NEW kind, NEW base, NEW s, NEW n \in Nat
  PROVE  IsFold(CHOOSE f : IsFold(f, kind, base, s, n), kind, base, s, n)
BY FoldExists, Zenon

LEMMA FoldEmpty ==
  ASSUME NEW kind, NEW base
  PROVE  Folded(kind, base, <<>>) = base
<1> DEFINE f == CHOOSE f : IsFold(f, kind, base, <<>>, 0)
<1>1. Len(<<>>) = 0 /\ 1..0 = {}
  OBVIOUS
<1>2. IsFold(f, kind, base, <<>>, 0)
  BY ChosenFold
<1> HIDE DEF f
<1>3. f[{}] = base
  BY <1>2, FoldStarts
<1> QED BY <1>1, <1>3 DEF Folded, f

LEMMA FoldAppend ==
  ASSUME NEW kind, NEW base, NEW S, NEW s \in Seq(S), NEW x \in S
  PROVE  Folded(kind, base, Append(s, x)) = FoldStep(kind, Folded(kind, base, s), x)
<1> DEFINE n == Len(s)
           t == Append(s, x)
           f == CHOOSE h : IsFold(h, kind, base, s, n)
           g == CHOOSE h : IsFold(h, kind, base, t, n + 1)
<1>1. n \in Nat /\ Len(t) = n + 1 /\ t[n + 1] = x /\ \A i \in 1..n : s[i] = t[i]
  OBVIOUS
<1>2. IsFold(f, kind, base, s, n) /\ IsFold(g, kind, base, t, n + 1)
  BY <1>1, ChosenFold
<1>3. Folded(kind, base, s) = f[1..n] /\ Folded(kind, base, t) = g[1..(n + 1)]
  BY <1>1 DEF Folded
<1> HIDE DEF n, t, f, g
<1>4. n + 1 \in Nat /\ n <= n + 1
  BY <1>1
<1>5. g[1..(n + 1)] = FoldStep(kind, g[1..n], t[n + 1])
  BY <1>1, <1>2, <1>4, FoldSteps
<1>6. f[1..n] = g[1..n]
  BY <1>1, <1>2, <1>4, FoldsAgree DEF SameUpTo
<1> QED BY <1>1, <1>3, <1>5, <1>6 DEF t

\* A definition by a fold is that fold.
LEMMA FoldChosen ==
  ASSUME NEW kind, NEW base, NEW S, NEW s \in Seq(S), NEW f, IsFold(f, kind, base, s, Len(s))
  PROVE  f[DOMAIN s] = Folded(kind, base, s)
<1> DEFINE g == CHOOSE h : IsFold(h, kind, base, s, Len(s))
<1>1. IsFold(g, kind, base, s, Len(s))
  OBVIOUS
<1>2. Folded(kind, base, s) = g[1..Len(s)]
  BY DEF Folded
<1> HIDE DEF g
<1>3. Len(s) \in Nat /\ DOMAIN s = 1..Len(s)
  OBVIOUS
<1> QED BY <1>1, <1>2, <1>3, FoldsAgree DEF SameUpTo

IsSplit(f, s) ==
  f = [X \in SUBSET (DOMAIN s) |->
         IF X = {} THEN <<<<>>>>
         ELSE SplitStep(f[X \ {Max(X)}], s[Max(X)])]

LEMMA SplitFold ==
  ASSUME NEW S, NEW s \in Seq(S)
  PROVE  Split(s, "nl") = Folded("split", <<<<>>>>, s)
<1> DEFINE f == CHOOSE g : IsSplit(g, s)
<1>1. Split(s, "nl") = f[DOMAIN s]
  BY DEF Split, FoldLeft, MapThenFoldSet, IsSplit, SplitStep
<1>2. \A g : IsSplit(g, s) <=> IsFold(g, "split", <<<<>>>>, s, Len(s))
  <2>1. \A st, x : FoldStep("split", st, x) = SplitStep(st, x)
    BY DEF FoldStep
  <2>2. DOMAIN s = 1..Len(s)
    OBVIOUS
  <2> QED BY <2>1, <2>2 DEF IsSplit, IsFold
<1>3. Len(s) \in Nat
  OBVIOUS
<1>4. IsSplit(f, s)
  BY <1>2, <1>3, FoldExists
<1> HIDE DEF f
<1> QED BY <1>1, <1>2, <1>4, FoldChosen

IsTaken(f, base, s) ==
  f = [X \in SUBSET (DOMAIN s) |->
         IF X = {} THEN base ELSE TakePiece(f[X \ {Max(X)}], s[Max(X)])]

\* The lines of a chunk are taken one by one.
Taken(parser, pieces) == Folded("take", [parser |-> parser, events |-> <<>>], pieces)

LEMMA PushFold ==
  ASSUME NEW S, NEW parser, NEW octets, NEW pieces, pieces = Split(parser.buf \o octets, "nl"),
         Front(pieces) \in Seq(S)
  PROVE  Push(parser, octets) = Taken([parser EXCEPT !.buf = Last(pieces)], Front(pieces))
<1> DEFINE base == [parser |-> [parser EXCEPT !.buf = Last(pieces)], events |-> <<>>]
           s == Front(pieces)
           f == CHOOSE g : IsTaken(g, base, s)
<1>1. Push(parser, octets) = f[DOMAIN s]
  BY DEF Push, FoldLeft, MapThenFoldSet, IsTaken, TakePiece
<1>6. s \in Seq(S)
  OBVIOUS
<1> HIDE DEF base, s
<1>2. \A g : IsTaken(g, base, s) <=> IsFold(g, "take", base, s, Len(s))
  <2>1. \A st, x : FoldStep("take", st, x) = TakePiece(st, x)
    BY DEF FoldStep
  <2>2. DOMAIN s = 1..Len(s)
    BY <1>6
  <2> QED BY <2>1, <2>2 DEF IsTaken, IsFold
<1>3. Len(s) \in Nat
  BY <1>6
<1>4. IsTaken(f, base, s)
  BY <1>2, <1>3, FoldExists
<1> HIDE DEF f
<1>5. f[DOMAIN s] = Folded("take", base, s)
  BY <1>2, <1>4, <1>6, FoldChosen
<1> QED BY <1>1, <1>5 DEF Taken, base, s

IsReplay(f, base, s) ==
  f = [X \in SUBSET (DOMAIN s) |-> IF X = {} THEN base ELSE StreamPush(f[X \ {Max(X)}], s[Max(X)])]

LEMMA ReplayFold ==
  ASSUME NEW S, NEW base, NEW s \in Seq(S)
  PROVE  FoldLeft(StreamPush, base, s) = Folded("replay", base, s)
<1> DEFINE f == CHOOSE g : IsReplay(g, base, s)
<1>1. FoldLeft(StreamPush, base, s) = f[DOMAIN s]
  BY DEF FoldLeft, MapThenFoldSet, IsReplay
<1>2. \A g : IsReplay(g, base, s) <=> IsFold(g, "replay", base, s, Len(s))
  <2>1. \A st, x : FoldStep("replay", st, x) = StreamPush(st, x)
    BY DEF FoldStep
  <2>2. DOMAIN s = 1..Len(s)
    OBVIOUS
  <2> QED BY <2>1, <2>2 DEF IsReplay, IsFold
<1>3. Len(s) \in Nat
  OBVIOUS
<1>4. IsReplay(f, base, s)
  BY <1>2, <1>3, FoldExists
<1> HIDE DEF f
<1> QED BY <1>1, <1>2, <1>4, FoldChosen

-----------------------------------------------------------------------------
(* Sequences of any kind *)

IsSeq(s) == \E S : s \in Seq(S)

LEMMA SeqCommon ==
  ASSUME NEW s, IsSeq(s), NEW t, IsSeq(t)
  PROVE  \E S : s \in Seq(S) /\ t \in Seq(S)
<1>1. PICK S : s \in Seq(S)
  BY DEF IsSeq
<1>2. PICK T : t \in Seq(T)
  BY DEF IsSeq
<1>3. s \in Seq(S \cup T) /\ t \in Seq(S \cup T)
  BY <1>1, <1>2
<1> QED BY <1>3

LEMMA SeqConcat ==
  ASSUME NEW s, IsSeq(s), NEW t, IsSeq(t)
  PROVE  /\ IsSeq(s \o t) /\ Len(s \o t) = Len(s) + Len(t)
         /\ s \o <<>> = s /\ <<>> \o s = s
         /\ IsPrefix(s, s \o t)
         /\ (s \o t = <<>>) <=> (s = <<>> /\ t = <<>>)
<1>1. PICK S : s \in Seq(S) /\ t \in Seq(S)
  BY SeqCommon
<1>2. s \o t \in Seq(S) /\ Len(s \o t) = Len(s) + Len(t) /\ s \o <<>> = s /\ <<>> \o s = s
  BY <1>1
<1>3. IsPrefix(s, s \o t)
  <2>1. SubSeq(s, 1, Len(s)) = SubSeq(s \o t, 1, Len(s))
    BY <1>1
  <2> QED BY <1>1, <1>2, <2>1 DEF IsPrefix
<1>4. (s \o t = <<>>) <=> (s = <<>> /\ t = <<>>)
  BY <1>1, ConcatEqualIffEmpty
<1> QED BY <1>2, <1>3, <1>4 DEF IsSeq

LEMMA SeqAssociative ==
  ASSUME NEW s, IsSeq(s), NEW t, IsSeq(t), NEW u, IsSeq(u)
  PROVE  (s \o t) \o u = s \o (t \o u)
<1>1. PICK S : s \in Seq(S) /\ t \in Seq(S)
  BY SeqCommon
<1>2. PICK T : u \in Seq(T)
  BY DEF IsSeq
<1>3. s \in Seq(S \cup T) /\ t \in Seq(S \cup T) /\ u \in Seq(S \cup T)
  BY <1>1, <1>2
<1> QED BY <1>3, ConcatAssociative

LEMMA SeqAppend ==
  ASSUME NEW s, IsSeq(s), NEW x
  PROVE  IsSeq(Append(s, x)) /\ Append(s, x) = s \o <<x>> /\ IsSeq(<<x>>) /\ IsSeq(<<>>)
<1>1. PICK S : s \in Seq(S)
  BY DEF IsSeq
<1>2. s \in Seq(S \cup {x}) /\ <<x>> \in Seq(S \cup {x}) /\ <<>> \in Seq(S)
  BY <1>1
<1>3. Append(s, x) \in Seq(S \cup {x}) /\ Append(s, x) = s \o <<x>>
  BY <1>2
<1> QED BY <1>2, <1>3 DEF IsSeq

-----------------------------------------------------------------------------
(* The lines of a text *)

LEMMA SplitEmpty == Split(<<>>, "nl") = <<<<>>>>
<1>1. <<>> \in Seq({})
  OBVIOUS
<1> QED BY <1>1, SplitFold, FoldEmpty

LEMMA SplitAppend ==
  ASSUME NEW S, NEW s \in Seq(S), NEW c \in S
  PROVE  Split(Append(s, c), "nl") = SplitStep(Split(s, "nl"), c)
<1>1. Append(s, c) \in Seq(S)
  OBVIOUS
<1>2. Folded("split", <<<<>>>>, Append(s, c)) = FoldStep("split", Folded("split", <<<<>>>>, s), c)
  BY FoldAppend
<1>3. \A st : FoldStep("split", st, c) = SplitStep(st, c)
  BY DEF FoldStep
<1> QED BY <1>1, <1>2, <1>3, SplitFold

NoEnd(s) == \A i \in 1..Len(s) : s[i] # "nl"

\* Lines, the last of which is not complete.
AreLines(S, p) == p \in Seq(Seq(S)) /\ Len(p) >= 1 /\ NoEnd(p[Len(p)])

LEMMA SplitLines ==
  ASSUME NEW S, NEW s \in Seq(S)
  PROVE  AreLines(S, Split(s, "nl"))
<1> DEFINE Good == {t \in Seq(S) : AreLines(S, Split(t, "nl"))}
<1>1. <<>> \in Good
  <2>1. AreLines(S, <<<<>>>>)
    BY DEF AreLines, NoEnd
  <2> QED BY <2>1, SplitEmpty
<1>2. ASSUME NEW t \in Seq(S), NEW c \in S, t \in Good PROVE Append(t, c) \in Good
  <2> DEFINE p == Split(t, "nl")
  <2>1. p \in Seq(Seq(S)) /\ Len(p) >= 1 /\ NoEnd(p[Len(p)])
    BY <1>2 DEF AreLines
  <2>2. Split(Append(t, c), "nl") = SplitStep(p, c) /\ Append(t, c) \in Seq(S)
    BY SplitAppend
  <2> HIDE DEF p
  <2>3. AreLines(S, SplitStep(p, c))
    <3>1. CASE c = "nl"
      <4>1. SplitStep(p, c) = Append(p, <<>>)
        BY <3>1 DEF SplitStep
      <4>2. Append(p, <<>>) \in Seq(Seq(S)) /\ Len(Append(p, <<>>)) >= 1
            /\ Append(p, <<>>)[Len(Append(p, <<>>))] = <<>>
        BY <2>1
      <4> QED BY <4>1, <4>2 DEF AreLines, NoEnd
    <3>2. CASE c # "nl"
      <4> DEFINE l == p[Len(p)]
                 r == [p EXCEPT ![Len(p)] = Append(l, c)]
      <4>1. SplitStep(p, c) = r
        BY <2>1, <3>2 DEF SplitStep
      <4>2. l \in Seq(S) /\ Append(l, c) \in Seq(S) /\ NoEnd(l)
        BY <2>1
      <4>3. r \in Seq(Seq(S)) /\ Len(r) = Len(p) /\ r[Len(r)] = Append(l, c)
        BY <2>1, <4>2
      <4> HIDE DEF l, r
      <4>4. NoEnd(Append(l, c))
        BY <3>2, <4>2 DEF NoEnd
      <4> QED BY <2>1, <4>1, <4>3, <4>4 DEF AreLines
    <3> QED BY <3>1, <3>2
  <2> QED BY <2>2, <2>3
<1> HIDE DEF Good
<1>3. s \in Good
  BY <1>1, <1>2, AllSequences
<1> QED BY <1>3 DEF Good

LEMMA SplitPlain ==
  ASSUME NEW S, NEW s \in Seq(S), NoEnd(s)
  PROVE  Split(s, "nl") = <<s>>
<1> DEFINE Good == {t \in Seq(S) : NoEnd(t) => Split(t, "nl") = <<t>>}
<1>1. <<>> \in Good
  BY SplitEmpty
<1>2. ASSUME NEW t \in Seq(S), NEW c \in S, t \in Good PROVE Append(t, c) \in Good
  <2>1. Append(t, c) \in Seq(S) /\ Split(Append(t, c), "nl") = SplitStep(Split(t, "nl"), c)
    BY SplitAppend
  <2>2. SUFFICES ASSUME NoEnd(Append(t, c)) PROVE Split(Append(t, c), "nl") = <<Append(t, c)>>
    BY <2>1
  <2>3. Append(t, c)[Len(t) + 1] = c /\ Len(Append(t, c)) = Len(t) + 1
        /\ \A i \in 1..Len(t) : Append(t, c)[i] = t[i]
    OBVIOUS
  <2>4. c # "nl" /\ NoEnd(t)
    BY <2>2, <2>3 DEF NoEnd
  <2>5. Split(t, "nl") = <<t>>
    BY <1>2, <2>4
  <2> QED BY <2>1, <2>4, <2>5 DEF SplitStep
<1> HIDE DEF Good
<1>3. s \in Good
  BY <1>1, <1>2, AllSequences
<1> QED BY <1>3 DEF Good

LEMMA FoldConcat ==
  ASSUME NEW kind, NEW base, NEW S, NEW s \in Seq(S), NEW t \in Seq(S)
  PROVE  Folded(kind, base, s \o t) = Folded(kind, Folded(kind, base, s), t)
<1> DEFINE Good == {u \in Seq(S) : Folded(kind, base, s \o u) = Folded(kind, Folded(kind, base, s), u)}
<1>1. <<>> \in Good
  BY FoldEmpty
<1>2. ASSUME NEW u \in Seq(S), NEW x \in S, u \in Good PROVE Append(u, x) \in Good
  <2>1. s \o u \in Seq(S) /\ s \o Append(u, x) = Append(s \o u, x) /\ Append(u, x) \in Seq(S)
    OBVIOUS
  <2> DEFINE v == s \o u
  <2>2. Folded(kind, base, Append(v, x)) = FoldStep(kind, Folded(kind, base, v), x)
    <3>1. v \in Seq(S)
      BY <2>1
    <3> HIDE DEF v
    <3> QED BY <3>1, FoldAppend
  <2>3. Folded(kind, Folded(kind, base, s), Append(u, x)) = FoldStep(kind, Folded(kind, Folded(kind, base, s), u), x)
    BY FoldAppend
  <2> QED BY <1>2, <2>1, <2>2, <2>3
<1> HIDE DEF Good
<1>3. t \in Good
  BY <1>1, <1>2, AllSequences
<1> QED BY <1>3 DEF Good

LEMMA ConcatAppend ==
  ASSUME NEW S, NEW s \in Seq(S), NEW t \in Seq(S), NEW x \in S
  PROVE  s \o Append(t, x) = Append(s \o t, x)
OBVIOUS

LEMMA ConcatExcept ==
  ASSUME NEW S, NEW q \in Seq(S), NEW w \in Seq(S), Len(w) >= 1, NEW l \in S
  PROVE  [q \o w EXCEPT ![Len(q \o w)] = l] = q \o [w EXCEPT ![Len(w)] = l]
<1> DEFINE r == [w EXCEPT ![Len(w)] = l]
           x == q \o w
           qr == [x EXCEPT ![Len(x)] = l]
           y == q \o r
<1>1. r \in Seq(S) /\ Len(r) = Len(w) /\ \A i \in 1..Len(w) : r[i] = IF i = Len(w) THEN l ELSE w[i]
  OBVIOUS
<1>2. x \in Seq(S) /\ Len(x) = Len(q) + Len(w)
      /\ \A i \in 1..(Len(q) + Len(w)) : x[i] = IF i <= Len(q) THEN q[i] ELSE w[i - Len(q)]
  BY ConcatProperties
<1> HIDE DEF x, r
<1>3. qr \in Seq(S) /\ Len(qr) = Len(q) + Len(w)
      /\ \A i \in 1..(Len(q) + Len(w)) : qr[i] = IF i = Len(q) + Len(w) THEN l ELSE x[i]
  <2>1. Len(x) \in 1..Len(x)
    BY <1>2
  <2> QED BY <1>2, <2>1, ExceptSeq
<1>4. y \in Seq(S) /\ Len(y) = Len(q) + Len(w)
      /\ \A i \in 1..(Len(q) + Len(w)) : y[i] = IF i <= Len(q) THEN q[i] ELSE r[i - Len(q)]
  <2>1. y \in Seq(S) /\ Len(y) = Len(q) + Len(r)
        /\ \A i \in 1..(Len(q) + Len(r)) : y[i] = IF i <= Len(q) THEN q[i] ELSE r[i - Len(q)]
    BY <1>1, ConcatProperties
  <2>2. Len(r) = Len(w)
    BY <1>1
  <2> HIDE DEF y
  <2> QED BY <2>1, <2>2
<1> HIDE DEF qr, y
<1>5. ASSUME NEW i \in 1..(Len(q) + Len(w)) PROVE qr[i] = y[i]
  <2>1. CASE i <= Len(q)
    <3>1. i # Len(q) + Len(w)
      BY <2>1
    <3> QED BY <1>2, <1>3, <1>4, <2>1, <3>1
  <2>2. CASE i > Len(q)
    <3>1. i - Len(q) \in 1..Len(w) /\ ~ (i <= Len(q)) /\ (i = Len(q) + Len(w) <=> i - Len(q) = Len(w))
      BY <2>2
    <3>2. y[i] = r[i - Len(q)] /\ x[i] = w[i - Len(q)]
      BY <1>2, <1>4, <3>1
    <3> QED BY <1>1, <1>3, <3>1, <3>2
  <2>3. i <= Len(q) \/ i > Len(q)
    OBVIOUS
  <2> QED BY <2>1, <2>2, <2>3
<1>6. qr = y
  BY <1>3, <1>4, <1>5, SeqEqual
<1> QED BY <1>6 DEF x, y, r, qr

\* The ends of the lines in a text do not depend on what is before its last line.
LEMMA StepAfter ==
  ASSUME NEW S, NEW q \in Seq(Seq(S)), NEW w \in Seq(Seq(S)), Len(w) >= 1, NEW c \in S
  PROVE  SplitStep(q \o w, c) = q \o SplitStep(w, c)
<1> DEFINE T == Seq(S)
           e == <<>>
           l == Append(w[Len(w)], c)
<1>1. q \in Seq(T) /\ w \in Seq(T) /\ e \in T /\ l \in T /\ (q \o w)[Len(q \o w)] = w[Len(w)]
  OBVIOUS
<1>2. SplitStep(w, c) = IF c = "nl" THEN Append(w, e) ELSE [w EXCEPT ![Len(w)] = l]
  BY DEF SplitStep
<1>3. SplitStep(q \o w, c) = IF c = "nl" THEN Append(q \o w, e) ELSE [q \o w EXCEPT ![Len(q \o w)] = l]
  BY <1>1 DEF SplitStep
<1> HIDE DEF T, e, l
<1>4. q \o Append(w, e) = Append(q \o w, e)
  BY <1>1, ConcatAppend
<1>5. [q \o w EXCEPT ![Len(q \o w)] = l] = q \o [w EXCEPT ![Len(w)] = l]
  BY <1>1, ConcatExcept
<1> QED BY <1>2, <1>3, <1>4, <1>5

LEMMA SplitFrom ==
  ASSUME NEW S, NEW t \in Seq(S), NEW q \in Seq(Seq(S)), NEW l \in Seq(S), NoEnd(l)
  PROVE  Folded("split", q \o <<l>>, t) = q \o Split(l \o t, "nl")
<1> DEFINE Good == {u \in Seq(S) : Folded("split", q \o <<l>>, u) = q \o Split(l \o u, "nl")}
<1>1. <<>> \in Good
  <2>1. l \o <<>> = l /\ <<>> \in Seq(S)
    OBVIOUS
  <2> QED BY <2>1, FoldEmpty, SplitPlain
<1>2. ASSUME NEW u \in Seq(S), NEW x \in S, u \in Good PROVE Append(u, x) \in Good
  <2> DEFINE w == Split(l \o u, "nl")
  <2>1. l \o u \in Seq(S) /\ l \o Append(u, x) = Append(l \o u, x) /\ Append(u, x) \in Seq(S)
    OBVIOUS
  <2>2. Folded("split", q \o <<l>>, Append(u, x)) = FoldStep("split", Folded("split", q \o <<l>>, u), x)
    BY FoldAppend
  <2>3. AreLines(S, w)
    BY <2>1, SplitLines
  <2>4. Split(l \o Append(u, x), "nl") = SplitStep(w, x)
    BY <2>1, SplitAppend
  <2>5. Folded("split", q \o <<l>>, u) = q \o w
    BY <1>2
  <2> HIDE DEF w
  <2>6. SplitStep(q \o w, x) = q \o SplitStep(w, x)
    BY <2>3, StepAfter DEF AreLines
  <2>7. FoldStep("split", q \o w, x) = SplitStep(q \o w, x)
    BY DEF FoldStep
  <2> QED BY <2>1, <2>2, <2>4, <2>5, <2>6, <2>7
<1> HIDE DEF Good
<1>3. t \in Good
  BY <1>1, <1>2, AllSequences
<1> QED BY <1>3 DEF Good

\* Lines are split off as a text comes.
LEMMA SplitMore ==
  ASSUME NEW S, NEW s \in Seq(S), NEW t \in Seq(S),
         NEW p, p = Split(s, "nl")
  PROVE  /\ Front(p) \in Seq(Seq(S)) /\ Last(p) \in Seq(S)
         /\ Split(s \o t, "nl") = Front(p) \o Split(Last(p) \o t, "nl")
<1>1. AreLines(S, p)
  BY SplitLines
<1>2. p \in Seq(Seq(S)) /\ p # <<>> /\ Last(p) = p[Len(p)] /\ NoEnd(Last(p)) /\ Last(p) \in Seq(S)
  BY <1>1 DEF AreLines, Last
<1>3. Front(p) \in Seq(Seq(S)) /\ p = Front(p) \o <<Last(p)>>
  BY <1>2 DEF Front
<1>4. Split(s \o t, "nl") = Folded("split", p, t)
  <2>1. s \o t \in Seq(S)
    OBVIOUS
  <2>2. Split(s \o t, "nl") = Folded("split", <<<<>>>>, s \o t) /\ p = Folded("split", <<<<>>>>, s)
    BY <2>1, SplitFold
  <2> DEFINE base == <<<<>>>>
  <2>3. Folded("split", base, s \o t) = Folded("split", Folded("split", base, s), t)
    <3> HIDE DEF base
    <3> QED BY FoldConcat
  <2> QED BY <2>2, <2>3, Zenon
<1>5. Folded("split", Front(p) \o <<Last(p)>>, t) = Front(p) \o Split(Last(p) \o t, "nl")
  BY <1>2, <1>3, SplitFrom
<1> QED BY <1>2, <1>3, <1>4, <1>5

-----------------------------------------------------------------------------
(* Pushing octets *)

Parser(b, v, n, d) == [buf |-> b, event |-> v, named |-> n, data |-> d]
Out(p, e) == [parser |-> p, events |-> e]

\* What the updates of the model do to a parser and to what a push gives back.
LEMMA ParserDispatched ==
  ASSUME NEW b, NEW v, NEW n, NEW d
  PROVE  [Parser(b, v, n, d) EXCEPT !.event = <<>>, !.named = FALSE, !.data = <<>>]
           = Parser(b, <<>>, FALSE, <<>>)
<1> DEFINE nothing == <<>>
           no == FALSE
<1> HIDE DEF nothing, no
<1>1. [Parser(b, v, n, d) EXCEPT !.event = nothing, !.named = no, !.data = nothing] = Parser(b, nothing, no, nothing)
  <2>1. [Parser(b, v, n, d) EXCEPT !.event = nothing] = Parser(b, nothing, n, d)
    BY DEF Parser
  <2>2. [Parser(b, nothing, n, d) EXCEPT !.named = no] = Parser(b, nothing, no, d)
    BY DEF Parser
  <2>3. [Parser(b, nothing, no, d) EXCEPT !.data = nothing] = Parser(b, nothing, no, nothing)
    BY DEF Parser
  <2> QED BY <2>1, <2>2, <2>3, Zenon
<1> QED BY <1>1, Zenon DEF nothing, no

PutData(out, x) == [out EXCEPT !.parser.data = Append(@, x)]
PutName(out, x) == [out EXCEPT !.parser.event = x, !.parser.named = TRUE]
Clean(b) == Parser(b, <<>>, FALSE, <<>>)
Named(b, x, d) == Parser(b, x, TRUE, d)
Gives(v, n, d) == IF d = <<>> THEN <<>> ELSE <<[named |-> n, event |-> v, data |-> Join(d, <<"nl">>)]>>

LEMMA OutData ==
  ASSUME NEW b, NEW v, NEW n, NEW d, NEW e, NEW x
  PROVE  PutData(Out(Parser(b, v, n, d), e), x) = Out(Parser(b, v, n, Append(d, x)), e)
<1> DEFINE out == Out(Parser(b, v, n, d), e)
           y == Append(d, x)
           p == Parser(b, v, n, d)
           q == Parser(b, v, n, y)
<1>1. p.data = d
  BY DEF Parser
<1> HIDE DEF y
<1>2. [p EXCEPT !.data = y] = q
  BY DEF Parser
<1> HIDE DEF p, q
<1>3. out.parser = p /\ [out EXCEPT !.parser = q] = Out(q, e)
  BY DEF p, Out
<1> HIDE DEF out
<1> QED BY <1>1, <1>2, <1>3, Zenon DEF y, q, out, p, PutData

LEMMA OutNamed ==
  ASSUME NEW b, NEW v, NEW n, NEW d, NEW e, NEW x
  PROVE  PutName(Out(Parser(b, v, n, d), e), x) = Out(Named(b, x, d), e)
<1> DEFINE out == Out(Parser(b, v, n, d), e)
           yes == TRUE
           p == Parser(b, v, n, d)
           q == Parser(b, x, n, d)
           r == Parser(b, x, yes, d)
<1>1. [p EXCEPT !.event = x] = q
  BY DEF Parser
<1> HIDE DEF yes
<1>2. [q EXCEPT !.named = yes] = r
  BY DEF Parser
<1> HIDE DEF p, q, r
<1>3. out.parser = p /\ [out EXCEPT !.parser = q] = Out(q, e)
  BY DEF p, Out
<1> HIDE DEF out
<1>4. Out(q, e).parser = q /\ [Out(q, e) EXCEPT !.parser = r] = Out(r, e)
  BY DEF Out
<1>5. [out EXCEPT !.parser.event = x, !.parser.named = yes] = Out(r, e)
  BY <1>1, <1>2, <1>3, <1>4, Zenon
<1> QED BY <1>5, Zenon DEF yes, r, out, p, PutName, Named

LEMMA Dispatched ==
  ASSUME NEW b, NEW v, NEW n, NEW d, NEW e, IsSeq(e)
  PROVE  Dispatch(Out(Parser(b, v, n, d), e)) = Out(Clean(b), e \o Gives(v, n, d))
<1> DEFINE x == [named |-> n, event |-> v, data |-> Join(d, <<"nl">>)]
           p == Parser(b, v, n, d)
           out == Out(p, e)
           clean == Parser(b, <<>>, FALSE, <<>>)
<1>1. e \o <<>> = e /\ Append(e, x) = e \o <<x>>
  BY SeqConcat, SeqAppend
<1>2. p.event = v /\ p.named = n /\ p.data = d
  BY DEF Parser
<1>3. [p EXCEPT !.event = <<>>, !.named = FALSE, !.data = <<>>] = clean
  BY ParserDispatched, Zenon
<1>4. out.parser = p /\ out.events = e
  BY DEF Out
<1>5. Gives(v, n, d) = IF d = <<>> THEN <<>> ELSE <<x>>
  BY Zenon DEF Gives
<1> HIDE DEF p, out, clean, x
<1>6. Dispatch(out) = [parser |-> clean,
                       events |-> IF d = <<>> THEN e
                                  ELSE Append(e, [named |-> n, event |-> v, data |-> Join(d, <<"nl">>)])]
  BY <1>2, <1>3, <1>4, Zenon DEF Dispatch
<1>7. Dispatch(out) = [parser |-> clean, events |-> IF d = <<>> THEN e ELSE Append(e, x)]
  BY <1>6, Zenon DEF x
<1>8. (IF d = <<>> THEN e ELSE Append(e, x)) = e \o Gives(v, n, d)
  BY <1>1, <1>5
<1> QED BY <1>7, <1>8, Zenon DEF Out, out, p, clean, Clean

\* A line does the same whatever waits for the end of its line and whatever events
\* there were.
LineMoves(piece, v, n, d, v2, n2, d2, ev) ==
  /\ IsSeq(ev)
  /\ \A b, e : IsSeq(e) =>
       TakePiece(Out(Parser(b, v, n, d), e), piece) = Out(Parser(b, v2, n2, d2), e \o ev)

LEMMA LineTaken ==
  ASSUME NEW v, NEW n, NEW d, NEW piece
  PROVE  \E v2, n2, d2, ev : LineMoves(piece, v, n, d, v2, n2, d2, ev)
<1> DEFINE line == Decoded(WithoutReturn(piece))
           at == Find(line, <<":">>)
           field == IF at = 0 THEN line ELSE Before(line, at)
           raw == IF at = 0 THEN <<>> ELSE From(line, at + 1)
           value == IF raw # <<>> /\ Head(raw) = " " THEN Tail(raw) ELSE raw
<1>1. \A out : TakePiece(out, piece) =
        CASE line = <<>> -> Dispatch(out)
          [] line # <<>> /\ field = <<"data">> -> PutData(out, value)
          [] line # <<>> /\ field = <<"event">> -> PutName(out, value)
          [] OTHER -> out
  BY Zenon DEF TakePiece, TakeLine, PutData, PutName
<1> HIDE DEF line, at, field, raw, value
<1>2. IsSeq(<<>>) /\ \A e : IsSeq(e) => e \o <<>> = e
  <2>1. IsSeq(<<>>)
    BY EmptySeq DEF IsSeq
  <2> QED BY <2>1, SeqConcat
<1>3. CASE line = <<>>
  <2>1. IsSeq(Gives(v, n, d))
    <3> DEFINE x == [named |-> n, event |-> v, data |-> Join(d, <<"nl">>)]
    <3>1. Gives(v, n, d) = IF d = <<>> THEN <<>> ELSE <<x>>
      BY Zenon DEF Gives
    <3> HIDE DEF x
    <3>2. IsSeq(Append(<<>>, x)) /\ Append(<<>>, x) = <<x>>
      BY <1>2, SeqAppend
    <3> QED BY <1>2, <3>1, <3>2
  <2>2. ASSUME NEW b, NEW e, IsSeq(e)
        PROVE  TakePiece(Out(Parser(b, v, n, d), e), piece) = Out(Parser(b, <<>>, FALSE, <<>>), e \o Gives(v, n, d))
    <3>1. TakePiece(Out(Parser(b, v, n, d), e), piece) = Dispatch(Out(Parser(b, v, n, d), e))
      BY <1>1, <1>3
    <3>2. Dispatch(Out(Parser(b, v, n, d), e)) = Out(Clean(b), e \o Gives(v, n, d))
      BY <2>2, Dispatched
    <3>3. Clean(b) = Parser(b, <<>>, FALSE, <<>>)
      BY Zenon DEF Clean
    <3> QED BY <3>1, <3>2, <3>3, Zenon
  <2>3. LineMoves(piece, v, n, d, <<>>, FALSE, <<>>, Gives(v, n, d))
    BY <2>1, <2>2, Zenon DEF LineMoves
  <2> QED BY <2>3, Zenon
<1>4. CASE line # <<>> /\ field = <<"data">>
  <2>1. ASSUME NEW b, NEW e, IsSeq(e)
        PROVE  TakePiece(Out(Parser(b, v, n, d), e), piece) = Out(Parser(b, v, n, Append(d, value)), e \o <<>>)
    <3>1. TakePiece(Out(Parser(b, v, n, d), e), piece) = PutData(Out(Parser(b, v, n, d), e), value)
      BY <1>1, <1>4
    <3> QED BY <1>2, <2>1, <3>1, OutData
  <2>2. LineMoves(piece, v, n, d, v, n, Append(d, value), <<>>)
    BY <1>2, <2>1, Zenon DEF LineMoves
  <2> QED BY <2>2, Zenon
<1>5. CASE line # <<>> /\ field = <<"event">>
  <2>1. ASSUME NEW b, NEW e, IsSeq(e)
        PROVE  TakePiece(Out(Parser(b, v, n, d), e), piece) = Out(Parser(b, value, TRUE, d), e \o <<>>)
    <3>1. field # <<"data">>
      BY <1>5
    <3>2. TakePiece(Out(Parser(b, v, n, d), e), piece) = PutName(Out(Parser(b, v, n, d), e), value)
      BY <1>1, <1>5, <3>1
    <3>3. PutName(Out(Parser(b, v, n, d), e), value) = Out(Named(b, value, d), e)
      BY OutNamed
    <3> QED BY <1>2, <2>1, <3>2, <3>3, Zenon DEF Named
  <2>2. LineMoves(piece, v, n, d, value, TRUE, d, <<>>)
    BY <1>2, <2>1, Zenon DEF LineMoves
  <2> QED BY <2>2, Zenon
<1>6. CASE line # <<>> /\ field # <<"data">> /\ field # <<"event">>
  <2>1. ASSUME NEW b, NEW e, IsSeq(e)
        PROVE  TakePiece(Out(Parser(b, v, n, d), e), piece) = Out(Parser(b, v, n, d), e \o <<>>)
    <3>1. TakePiece(Out(Parser(b, v, n, d), e), piece) = Out(Parser(b, v, n, d), e)
      BY <1>1, <1>6
    <3> QED BY <1>2, <2>1, <3>1
  <2>2. LineMoves(piece, v, n, d, v, n, d, <<>>)
    BY <1>2, <2>1, Zenon DEF LineMoves
  <2> QED BY <2>2, Zenon
<1> QED BY <1>3, <1>4, <1>5, <1>6

\* So do several lines.
AllMove(pieces, v, n, d, v2, n2, d2, ev) ==
  /\ IsSeq(ev)
  /\ \A b, e : IsSeq(e) =>
       Folded("take", Out(Parser(b, v, n, d), e), pieces) = Out(Parser(b, v2, n2, d2), e \o ev)

LEMMA NothingTaken ==
  ASSUME NEW v, NEW n, NEW d
  PROVE  AllMove(<<>>, v, n, d, v, n, d, <<>>)
<1>1. IsSeq(<<>>)
  BY EmptySeq DEF IsSeq
<1>2. ASSUME NEW b, NEW e, IsSeq(e)
      PROVE  Folded("take", Out(Parser(b, v, n, d), e), <<>>) = Out(Parser(b, v, n, d), e \o <<>>)
  <2>1. e \o <<>> = e
    BY <1>1, <1>2, SeqConcat
  <2> QED BY <2>1, FoldEmpty
<1> QED BY <1>1, <1>2, Zenon DEF AllMove

LEMMA OneMoreTaken ==
  ASSUME NEW S, NEW pieces \in Seq(S), NEW x \in S, NEW v, NEW n, NEW d, NEW v1, NEW n1, NEW d1, NEW e1,
         NEW v2, NEW n2, NEW d2, NEW e2,
         AllMove(pieces, v, n, d, v1, n1, d1, e1), LineMoves(x, v1, n1, d1, v2, n2, d2, e2)
  PROVE  AllMove(Append(pieces, x), v, n, d, v2, n2, d2, e1 \o e2)
<1>1. IsSeq(e1) /\ IsSeq(e2)
  BY Zenon DEF AllMove, LineMoves
<1>2. IsSeq(e1 \o e2)
  BY <1>1, SeqConcat
<1>3. ASSUME NEW b, NEW e, IsSeq(e)
      PROVE  Folded("take", Out(Parser(b, v, n, d), e), Append(pieces, x)) = Out(Parser(b, v2, n2, d2), e \o (e1 \o e2))
  <2> DEFINE base == Out(Parser(b, v, n, d), e)
             mid == Out(Parser(b, v1, n1, d1), e \o e1)
  <2>1. Folded("take", base, pieces) = mid
    BY <1>3, Zenon DEF AllMove
  <2>2. IsSeq(e \o e1) /\ (e \o e1) \o e2 = e \o (e1 \o e2)
    BY <1>1, <1>3, SeqConcat, SeqAssociative
  <2>3. TakePiece(mid, x) = Out(Parser(b, v2, n2, d2), (e \o e1) \o e2)
    BY <2>2, Zenon DEF LineMoves
  <2> HIDE DEF base, mid
  <2>4. Folded("take", base, Append(pieces, x)) = FoldStep("take", Folded("take", base, pieces), x)
    BY FoldAppend
  <2>5. FoldStep("take", mid, x) = TakePiece(mid, x)
    BY DEF FoldStep
  <2> QED BY <2>1, <2>2, <2>3, <2>4, <2>5 DEF base
<1> QED BY <1>2, <1>3, Zenon DEF AllMove

LEMMA PiecesTaken ==
  ASSUME NEW S, NEW pieces \in Seq(S), NEW v, NEW n, NEW d
  PROVE  \E v2, n2, d2, ev : AllMove(pieces, v, n, d, v2, n2, d2, ev)
<1> DEFINE Good == {p \in Seq(S) : \E v2, n2, d2, ev : AllMove(p, v, n, d, v2, n2, d2, ev)}
<1>1. <<>> \in Good
  <2>1. <<>> \in Seq(S)
    OBVIOUS
  <2>2. AllMove(<<>>, v, n, d, v, n, d, <<>>)
    BY NothingTaken
  <2> QED BY <2>1, <2>2, Zenon
<1>2. ASSUME NEW p \in Seq(S), NEW x \in S, p \in Good PROVE Append(p, x) \in Good
  <2>1. PICK v1, n1, d1, e1 : AllMove(p, v, n, d, v1, n1, d1, e1)
    BY <1>2, Zenon
  <2>2. PICK v2, n2, d2, e2 : LineMoves(x, v1, n1, d1, v2, n2, d2, e2)
    BY LineTaken, Zenon
  <2>3. AllMove(Append(p, x), v, n, d, v2, n2, d2, e1 \o e2)
    BY <2>1, <2>2, OneMoreTaken
  <2>4. Append(p, x) \in Seq(S)
    OBVIOUS
  <2> QED BY <2>3, <2>4, Zenon
<1> HIDE DEF Good
<1>3. pieces \in Good
  BY <1>1, <1>2, AllSequences
<1> QED BY <1>3, Zenon DEF Good

LEMMA PushForm ==
  ASSUME NEW S, NEW b \in Seq(S), NEW octets \in Seq(S), NEW v, NEW n, NEW d,
         NEW pieces, pieces = Split(b \o octets, "nl"), NEW none, none = <<>>
  PROVE  Push(Parser(b, v, n, d), octets) = Folded("take", Out(Parser(Last(pieces), v, n, d), none), Front(pieces))
<1> DEFINE p == Parser(b, v, n, d)
<1>1. p.buf = b
  BY DEF Parser
<1>2. [p EXCEPT !.buf = Last(pieces)] = Parser(Last(pieces), v, n, d)
  BY DEF Parser
<1> HIDE DEF p
<1>3. Front(pieces) \in Seq(Seq(S))
  <2>1. b \o octets \in Seq(S) /\ <<>> \in Seq(S)
    OBVIOUS
  <2> DEFINE s == b \o octets
  <2> HIDE DEF s
  <2>2. pieces = Split(s, "nl") /\ s \in Seq(S)
    BY <2>1 DEF s
  <2> QED BY <2>1, <2>2, SplitMore
<1>4. pieces = Split(p.buf \o octets, "nl")
  BY <1>1
<1>5. Push(p, octets) = Taken([p EXCEPT !.buf = Last(pieces)], Front(pieces))
  BY <1>3, <1>4, PushFold
<1> QED BY <1>2, <1>5, Zenon DEF Taken, Out, p

LEMMA FrontLastConcat ==
  ASSUME NEW S, NEW q \in Seq(S), NEW w \in Seq(S), w # <<>>
  PROVE  Front(q \o w) = q \o Front(w) /\ Last(q \o w) = Last(w) /\ Front(w) \in Seq(S)
<1>1. Len(w) \in Nat /\ Len(w) >= 1
  OBVIOUS
<1>2. Last(q \o w) = Last(w)
  BY <1>1 DEF Last
<1> DEFINE x == q \o w
           l == Front(w)
           y == q \o l
<1>3. x \in Seq(S) /\ Len(x) = Len(q) + Len(w)
      /\ \A i \in 1..(Len(q) + Len(w)) : x[i] = IF i <= Len(q) THEN q[i] ELSE w[i - Len(q)]
  BY ConcatProperties
<1>4. l \in Seq(S) /\ Len(l) = Len(w) - 1 /\ \A i \in 1..(Len(w) - 1) : l[i] = w[i]
  <2> DEFINE n == Len(w) - 1
  <2>1. l = SubSeq(w, 1, n) /\ n \in Nat /\ n - 1 + 1 = n /\ n + 1 = Len(w)
    BY <1>1 DEF Front
  <2> HIDE DEF n, l
  <2>2. \A i \in 1..n : w[i] \in S
    BY <2>1
  <2>3. SubSeq(w, 1, n) \in Seq(S) /\ Len(SubSeq(w, 1, n)) = n /\ \A i \in 1..n : SubSeq(w, 1, n)[i] = w[i]
    BY <2>1, <2>2
  <2> QED BY <2>1, <2>3 DEF n
<1> HIDE DEF x, l
<1>5. Front(x) \in Seq(S) /\ Len(Front(x)) = Len(x) - 1 /\ \A i \in 1..(Len(x) - 1) : Front(x)[i] = x[i]
  BY <1>1, <1>3 DEF Front
<1>6. y \in Seq(S) /\ Len(y) = Len(q) + Len(l)
      /\ \A i \in 1..(Len(q) + Len(l)) : y[i] = IF i <= Len(q) THEN q[i] ELSE l[i - Len(q)]
  BY <1>4, ConcatProperties
<1> HIDE DEF y
<1>7. Len(Front(x)) = Len(y)
  BY <1>3, <1>4, <1>5, <1>6
<1>8. ASSUME NEW i \in 1..Len(Front(x)) PROVE Front(x)[i] = y[i]
  <2>1. i \in Nat /\ i >= 1 /\ i <= Len(q) + Len(w) - 1 /\ Front(x)[i] = x[i] /\ i \in 1..(Len(q) + Len(w))
    BY <1>1, <1>3, <1>5
  <2>2. CASE i <= Len(q)
    BY <1>3, <1>4, <1>6, <2>1, <2>2
  <2>3. CASE i > Len(q)
    <3>1. i - Len(q) \in 1..(Len(w) - 1) /\ ~ (i <= Len(q)) /\ i \in 1..(Len(q) + Len(l))
      BY <1>1, <1>4, <2>1, <2>3
    <3>2. x[i] = w[i - Len(q)] /\ y[i] = l[i - Len(q)]
      BY <1>3, <1>6, <2>1, <3>1
    <3> QED BY <1>4, <2>1, <3>1, <3>2
  <2>4. i <= Len(q) \/ i > Len(q)
    BY <2>1
  <2> QED BY <2>2, <2>3, <2>4
<1>9. Front(x) = y
  BY <1>5, <1>6, <1>7, <1>8, SeqEqual
<1> QED BY <1>2, <1>4, <1>9 DEF x, y, l

\* Octets pushed in two pieces are pushed as one.
LEMMA PushTwice ==
  ASSUME NEW S, NEW a \in Seq(S), NEW c \in Seq(S),
         NEW one, one = Push(NewParser, a), NEW two, two = Push(one.parser, c)
  PROVE  /\ IsSeq(one.events) /\ IsSeq(two.events)
         /\ Push(NewParser, a \o c) = Out(two.parser, one.events \o two.events)
<1> DEFINE z == <<>>
           b0 == <<>>
           f == FALSE
           A == Split(a, "nl")
           s == Last(A) \o c
           B == Split(s, "nl")
           T == Seq(S)
<1>0. z = <<>> /\ NewParser = Parser(b0, z, f, z) /\ b0 \in Seq(S) /\ IsSeq(z) /\ b0 \o a = a /\ b0 \o (a \o c) = a \o c
      /\ \A e : IsSeq(e) => z \o e = e
  <2>1. NewParser = Parser(b0, z, f, z) /\ b0 \in Seq(S) /\ b0 \o a = a /\ b0 \o (a \o c) = a \o c
    BY DEF NewParser, Parser
  <2>2. IsSeq(z)
    BY <2>1 DEF IsSeq
  <2> QED BY <2>1, <2>2, SeqConcat
<1>1. Front(A) \in Seq(T) /\ Last(A) \in T /\ Split(a \o c, "nl") = Front(A) \o B
  BY SplitMore
<1>2. s \in Seq(S) /\ a \o c \in Seq(S)
  BY <1>1
<1>3. B \in Seq(T) /\ B # <<>>
  <2> HIDE DEF s
  <2>1. AreLines(S, B)
    BY <1>2, SplitLines
  <2> QED BY <2>1 DEF AreLines
<1> HIDE DEF z, b0, f, T
<1>4. PICK v1, n1, d1, e1 : AllMove(Front(A), z, f, z, v1, n1, d1, e1)
  <2> HIDE DEF A
  <2> QED BY <1>1, PiecesTaken
<1> HIDE DEF B
<1>5. Front(B) \in Seq(T) /\ Front(Front(A) \o B) = Front(A) \o Front(B) /\ Last(Front(A) \o B) = Last(B)
  <2> HIDE DEF A
  <2> QED BY <1>1, <1>3, FrontLastConcat
<1>6. PICK v2, n2, d2, e2 : AllMove(Front(B), v1, n1, d1, v2, n2, d2, e2)
  BY <1>5, PiecesTaken
<1>7. IsSeq(e1) /\ IsSeq(e2)
  BY <1>4, <1>6, Zenon DEF AllMove
<1>8. one = Out(Parser(Last(A), v1, n1, d1), e1)
  <2>1. Folded("take", Out(Parser(Last(A), z, f, z), z), Front(A)) = Out(Parser(Last(A), v1, n1, d1), z \o e1)
    BY <1>0, <1>4, Zenon DEF AllMove
  <2>2. A = Split(b0 \o a, "nl") /\ z = <<>> /\ b0 \in Seq(S)
    BY <1>0
  <2> HIDE DEF A
  <2>3. Push(Parser(b0, z, f, z), a) = Folded("take", Out(Parser(Last(A), z, f, z), z), Front(A))
    BY <2>2, PushForm
  <2> QED BY <1>0, <1>7, <2>1, <2>3
<1>9. two = Out(Parser(Last(B), v2, n2, d2), e2)
  <2>1. Folded("take", Out(Parser(Last(B), v1, n1, d1), z), Front(B)) = Out(Parser(Last(B), v2, n2, d2), z \o e2)
    BY <1>0, <1>6, Zenon DEF AllMove
  <2>2. one.parser = Parser(Last(A), v1, n1, d1)
    BY <1>8 DEF Out
  <2>3. B = Split(Last(A) \o c, "nl") /\ Last(A) \in Seq(S)
    BY <1>1 DEF B, T
  <2> HIDE DEF A
  <2>4. Push(Parser(Last(A), v1, n1, d1), c) = Folded("take", Out(Parser(Last(B), v1, n1, d1), z), Front(B))
    BY <1>0, <2>3, PushForm
  <2> QED BY <1>0, <1>7, <2>1, <2>2, <2>4
<1>10. Push(NewParser, a \o c) = Out(Parser(Last(B), v2, n2, d2), e1 \o e2)
  <2> DEFINE P == Front(A) \o B
             base == Out(Parser(Last(B), z, f, z), z)
             mid == Out(Parser(Last(B), v1, n1, d1), e1)
  <2>1. P = Split(b0 \o (a \o c), "nl")
    BY <1>0, <1>1
  <2>2. Push(Parser(b0, z, f, z), a \o c) = Folded("take", Out(Parser(Last(P), z, f, z), z), Front(P))
    <3> HIDE DEF P
    <3> DEFINE ac == a \o c
    <3>1. ac \in Seq(S) /\ P = Split(b0 \o ac, "nl") /\ z = <<>> /\ b0 \in Seq(S)
      BY <1>0, <1>2, <2>1
    <3> HIDE DEF ac
    <3>2. Push(Parser(b0, z, f, z), ac) = Folded("take", Out(Parser(Last(P), z, f, z), z), Front(P))
      BY <3>1, PushForm
    <3> QED BY <3>2 DEF ac
  <2>3. Push(NewParser, a \o c) = Folded("take", base, Front(A) \o Front(B))
    BY <1>0, <1>5, <2>2
  <2>4. Folded("take", base, Front(A)) = mid
    <3>1. Folded("take", base, Front(A)) = Out(Parser(Last(B), v1, n1, d1), z \o e1)
      BY <1>0, <1>4, Zenon DEF AllMove
    <3> QED BY <1>0, <1>7, <3>1
  <2>5. Folded("take", mid, Front(B)) = Out(Parser(Last(B), v2, n2, d2), e1 \o e2)
    BY <1>6, <1>7, Zenon DEF AllMove
  <2> HIDE DEF base, mid, A
  <2>6. Folded("take", base, Front(A) \o Front(B)) = Folded("take", Folded("take", base, Front(A)), Front(B))
    BY <1>1, <1>5, FoldConcat
  <2> QED BY <2>3, <2>4, <2>5, <2>6
<1>11. one.events = e1 /\ two.events = e2 /\ two.parser = Parser(Last(B), v2, n2, d2)
  BY <1>8, <1>9 DEF Out
<1> QED BY <1>7, <1>10, <1>11

LEMMA PushNothing == Push(NewParser, <<>>) = Out(NewParser, <<>>)
<1> DEFINE z == <<>>
           b0 == <<>>
           o == <<>>
           f == FALSE
           P == <<<<>>>>
<1>1. NewParser = Parser(b0, z, f, z) /\ b0 \in Seq({}) /\ o \in Seq({}) /\ z = <<>>
  BY DEF NewParser, Parser
<1>2. P = Split(b0 \o o, "nl")
  <2>1. b0 \o o = <<>>
    OBVIOUS
  <2> QED BY <2>1, SplitEmpty
<1>3. Last(P) = b0 /\ Front(P) = <<>>
  BY DEF Last, Front
<1> HIDE DEF z, b0, o, f, P
<1>4. Push(Parser(b0, z, f, z), o) = Folded("take", Out(Parser(Last(P), z, f, z), z), Front(P))
  BY <1>1, <1>2, PushForm
<1>5. Push(NewParser, o) = Out(NewParser, z)
  BY <1>1, <1>3, <1>4, FoldEmpty
<1> QED BY <1>5 DEF o, z

-----------------------------------------------------------------------------
(* The text of the events *)

LEMMA ReplayMore ==
  ASSUME NEW base, NEW s, IsSeq(s), NEW t, IsSeq(t)
  PROVE  FoldLeft(StreamPush, base, s \o t) = FoldLeft(StreamPush, FoldLeft(StreamPush, base, s), t)
<1>1. PICK S : s \in Seq(S) /\ t \in Seq(S)
  BY SeqCommon
<1>2. s \o t \in Seq(S)
  BY <1>1
<1>3. FoldLeft(StreamPush, base, s \o t) = Folded("replay", base, s \o t)
  <2> DEFINE u == s \o t
  <2>1. u \in Seq(S)
    BY <1>2
  <2> HIDE DEF u
  <2>2. FoldLeft(StreamPush, base, u) = Folded("replay", base, u)
    BY <2>1, ReplayFold
  <2> QED BY <2>2, Zenon DEF u
<1>4. FoldLeft(StreamPush, base, s) = Folded("replay", base, s)
  BY <1>1, ReplayFold
<1> DEFINE mid == Folded("replay", base, s)
<1>5. Folded("replay", base, s \o t) = Folded("replay", mid, t)
  BY <1>1, FoldConcat
<1> HIDE DEF mid
<1>6. FoldLeft(StreamPush, mid, t) = Folded("replay", mid, t)
  BY <1>1, ReplayFold
<1> QED BY <1>3, <1>4, <1>5, <1>6, Zenon DEF mid

\* An event adds its text.
LEMMA TextAdded ==
  ASSUME NEW stream, IsSeq(stream.text), NEW event
  PROVE  \E d : IsSeq(d) /\ (d # <<>> <=> Carries(event)) /\ StreamPush(stream, event).text = stream.text \o d
<1> DEFINE t == stream.text
           message == JsonOf[event.data]
           d == Delta(message)
<1>1. IsSeq(<<>>) /\ t \o <<>> = t /\ \A x : IsSeq(<<x>>)
  <2>1. IsSeq(<<>>)
    BY EmptySeq DEF IsSeq
  <2> QED BY <2>1, SeqConcat, SeqAppend
<1>2. CASE event.data \notin DOMAIN JsonOf
  <2>1. StreamPush(stream, event) = stream /\ ~ Carries(event)
    BY <1>2, Zenon DEF StreamPush, Carries
  <2>2. IsSeq(<<>>) /\ (<<>> # <<>> <=> Carries(event)) /\ StreamPush(stream, event).text = t \o <<>>
    BY <1>1, <2>1
  <2> QED BY <2>2, Zenon
<1>3. CASE event.data \in DOMAIN JsonOf
  <2>1. StreamPush(stream, event)
          = [text |-> t \o d, input |-> Given(message.input, stream.input),
             output |-> Given(message.output, stream.output)]
    BY <1>3, Zenon DEF StreamPush
  <2>2. StreamPush(stream, event).text = t \o d
    <3> HIDE DEF t, d, message
    <3> QED BY <2>1
  <2>3. Carries(event) <=> d # <<>>
    BY <1>3, Zenon DEF Carries
  <2>4. IsSeq(d)
    <3> HIDE DEF message
    <3>1. d = <<>> \/ d = <<message.choice>> \/ d = <<message.delta>>
      BY DEF Delta
    <3> HIDE DEF d
    <3> QED BY <1>1, <3>1
  <2> QED BY <2>2, <2>3, <2>4, Zenon
<1> QED BY <1>2, <1>3

Brings(s) == \E i \in DOMAIN s : Carries(s[i])
Adds(base, s, more) ==
  /\ IsSeq(more) /\ (more # <<>> <=> Brings(s))
  /\ FoldLeft(StreamPush, base, s).text = base.text \o more

LEMMA BringsMore ==
  ASSUME NEW S, NEW s \in Seq(S), NEW x \in S
  PROVE  Brings(Append(s, x)) <=> Brings(s) \/ Carries(x)
<1> DEFINE t == Append(s, x)
<1>1. DOMAIN s = 1..Len(s) /\ DOMAIN t = 1..(Len(s) + 1) /\ t[Len(s) + 1] = x /\ \A i \in 1..Len(s) : t[i] = s[i]
  OBVIOUS
<1> HIDE DEF t
<1>2. ASSUME Brings(s) \/ Carries(x) PROVE Brings(t)
  <2>1. CASE Carries(x)
    BY <1>1, <2>1 DEF Brings
  <2>2. CASE Brings(s)
    <3>1. PICK i \in DOMAIN s : Carries(s[i])
      BY <2>2 DEF Brings
    <3>2. i \in DOMAIN t /\ t[i] = s[i]
      BY <1>1, <3>1
    <3> QED BY <3>1, <3>2 DEF Brings
  <2> QED BY <1>2, <2>1, <2>2
<1>3. ASSUME Brings(t), ~ Carries(x) PROVE Brings(s)
  <2>1. PICK i \in DOMAIN t : Carries(t[i])
    BY <1>3 DEF Brings
  <2>2. i # Len(s) + 1
    BY <1>1, <1>3, <2>1
  <2>3. i \in DOMAIN s /\ s[i] = t[i]
    BY <1>1, <2>1, <2>2
  <2> QED BY <2>1, <2>3 DEF Brings
<1> QED BY <1>2, <1>3 DEF t

\* The text only grows, and it grows when an event brings text.
LEMMA TextGrows ==
  ASSUME NEW base, IsSeq(base.text), NEW s, IsSeq(s)
  PROVE  \E more : Adds(base, s, more)
<1>0. PICK S : s \in Seq(S)
  BY DEF IsSeq
<1> DEFINE Good == {t \in Seq(S) : \E more : Adds(base, t, more)}
<1>1. <<>> \in Good
  <2>1. <<>> \in Seq(S) /\ IsSeq(<<>>) /\ ~ Brings(<<>>)
    BY EmptySeq DEF IsSeq, Brings
  <2>2. FoldLeft(StreamPush, base, <<>>) = base
    <3> DEFINE z == <<>>
    <3>1. z \in Seq(S) /\ Folded("replay", base, z) = base
      BY FoldEmpty
    <3> HIDE DEF z
    <3>2. FoldLeft(StreamPush, base, z) = Folded("replay", base, z)
      BY <3>1, ReplayFold
    <3> QED BY <3>1, <3>2 DEF z
  <2>3. base.text \o <<>> = base.text
    BY <2>1, SeqConcat
  <2>4. Adds(base, <<>>, <<>>)
    BY <2>1, <2>2, <2>3, Zenon DEF Adds
  <2> QED BY <2>1, <2>4, Zenon
<1>2. ASSUME NEW t \in Seq(S), NEW x \in S, t \in Good PROVE Append(t, x) \in Good
  <2>1. PICK m : Adds(base, t, m)
    BY <1>2, Zenon
  <2> DEFINE mid == FoldLeft(StreamPush, base, t)
  <2>2. IsSeq(m) /\ mid.text = base.text \o m /\ IsSeq(mid.text)
    BY <2>1, SeqConcat DEF Adds
  <2>3. Append(t, x) \in Seq(S) /\ FoldLeft(StreamPush, base, Append(t, x)) = StreamPush(mid, x)
    <3>1. Append(t, x) \in Seq(S)
      OBVIOUS
    <3>2. mid = Folded("replay", base, t)
      BY ReplayFold
    <3> HIDE DEF mid
    <3>3. FoldLeft(StreamPush, base, Append(t, x)) = Folded("replay", base, Append(t, x))
      <4> DEFINE u == Append(t, x)
      <4>1. u \in Seq(S)
        OBVIOUS
      <4> HIDE DEF u
      <4>2. FoldLeft(StreamPush, base, u) = Folded("replay", base, u)
        BY <4>1, ReplayFold
      <4> QED BY <4>2, Zenon DEF u
    <3>4. Folded("replay", base, Append(t, x)) = FoldStep("replay", Folded("replay", base, t), x)
      BY FoldAppend
    <3>5. FoldStep("replay", mid, x) = StreamPush(mid, x)
      BY DEF FoldStep
    <3> QED BY <3>1, <3>2, <3>3, <3>4, <3>5, Zenon
  <2> HIDE DEF mid
  <2>4. PICK d : IsSeq(d) /\ (d # <<>> <=> Carries(x)) /\ StreamPush(mid, x).text = mid.text \o d
    BY <2>2, TextAdded
  <2>5. IsSeq(m \o d) /\ (m \o d = <<>> <=> m = <<>> /\ d = <<>>) /\ (base.text \o m) \o d = base.text \o (m \o d)
    <3>1. IsSeq(base.text) /\ IsSeq(m) /\ IsSeq(d)
      BY <2>2, <2>4
    <3> DEFINE b == base.text
    <3>2. (b \o m) \o d = b \o (m \o d)
      <4>1. IsSeq(b)
        BY <3>1
      <4> HIDE DEF b
      <4> QED BY <3>1, <4>1, SeqAssociative
    <3>3. IsSeq(m \o d) /\ (m \o d = <<>> <=> m = <<>> /\ d = <<>>)
      BY <3>1, SeqConcat
    <3> QED BY <3>2, <3>3
  <2>6. (m \o d # <<>>) <=> Brings(Append(t, x))
    <3>1. m # <<>> <=> Brings(t)
      BY <2>1, Zenon DEF Adds
    <3>2. Brings(Append(t, x)) <=> Brings(t) \/ Carries(x)
      BY BringsMore
    <3> QED BY <2>4, <2>5, <3>1, <3>2, Zenon
  <2>7. FoldLeft(StreamPush, base, Append(t, x)).text = base.text \o (m \o d)
    BY <2>2, <2>3, <2>4, <2>5, Zenon
  <2>8. Adds(base, Append(t, x), m \o d)
    BY <2>5, <2>6, <2>7, Zenon DEF Adds
  <2> QED BY <2>3, <2>8, Zenon
<1> HIDE DEF Good
<1>3. s \in Good
  BY <1>0, <1>1, <1>2, AllSequences
<1> QED BY <1>3, Zenon DEF Good

LEMMA FinishedEvents ==
  ASSUME NEW parser
  PROVE  IsSeq(Finished(parser).events)
<1> DEFINE line == Decoded(parser.buf)
           p == [parser EXCEPT !.buf = <<>>]
           out == [parser |-> p, events |-> <<>>]
           taken == IF parser.buf = <<>> THEN out ELSE TakeLine(out, line)
<1>1. Finished(parser) = IF taken.events # <<>> THEN taken ELSE Dispatch(taken)
  BY Zenon DEF Finished
<1>2. IsSeq(<<>>)
  BY EmptySeq DEF IsSeq
<1>3. \A o : IsSeq(o.events) => IsSeq(Dispatch(o).events)
  <2> TAKE o
  <2> DEFINE x == [named |-> o.parser.named, event |-> o.parser.event, data |-> Join(o.parser.data, <<"nl">>)]
             q == [o.parser EXCEPT !.event = <<>>, !.named = FALSE, !.data = <<>>]
             ev == IF o.parser.data = <<>> THEN o.events ELSE Append(o.events, x)
  <2>1. Dispatch(o) = [parser |-> q, events |-> ev]
    BY Zenon DEF Dispatch
  <2> HIDE DEF x, q
  <2>2. IsSeq(o.events) => IsSeq(ev)
    BY SeqAppend
  <2> HIDE DEF ev
  <2> QED BY <2>1, <2>2
<1>4. out.events = <<>> /\ out = Out(p, <<>>)
  BY DEF Out
<1> HIDE DEF line, p, out
<1>5. IsSeq(TakeLine(out, line).events)
  <2> DEFINE at == Find(line, <<":">>)
             field == IF at = 0 THEN line ELSE Before(line, at)
             raw == IF at = 0 THEN <<>> ELSE From(line, at + 1)
             value == IF raw # <<>> /\ Head(raw) = " " THEN Tail(raw) ELSE raw
  <2>1. TakeLine(out, line) =
        CASE line = <<>> -> Dispatch(out)
          [] line # <<>> /\ field = <<"data">> -> PutData(out, value)
          [] line # <<>> /\ field = <<"event">> -> PutName(out, value)
          [] OTHER -> out
    BY Zenon DEF TakeLine, PutData, PutName
  <2> HIDE DEF at, field, raw, value
  <2>2. TakeLine(out, line) \in {Dispatch(out), PutData(out, value), PutName(out, value), out}
    BY <2>1
  <2>3. PutData(out, value).events = <<>> /\ PutName(out, value).events = <<>>
    BY <1>4 DEF PutData, PutName, Out
  <2> QED BY <1>2, <1>3, <1>4, <2>2, <2>3
<1>6. IsSeq(taken.events)
  BY <1>2, <1>4, <1>5
<1> HIDE DEF taken
<1> QED BY <1>1, <1>3, <1>6

-----------------------------------------------------------------------------
(* The stream while it arrives *)

\* What the live view shows is what one push of all the octets would give.
LiveIsWhole ==
  LET one == Push(NewParser, sse.raw)
  IN /\ IsSeq(one.events) /\ sse.parser = one.parser
     /\ sse.stream = Replayed(one.events) /\ sse.count = Len(one.events)
     /\ IsSeq(sse.stream.text) /\ (sse.first # 0 <=> sse.stream.text # <<>>)

\* Octets are missing in the view only after the cap.
MissesAfterCap ==
  /\ sse.raw \in Seq(Octets)
  /\ \E rest \in Seq(Octets) : arrived = sse.raw \o rest /\ (rest # <<>> => Len(sse.raw) >= LiveBytes)

StreamInv == LiveIsWhole /\ MissesAfterCap

LEMMA StreamStarts == StreamInit => StreamInv
<1> SUFFICES ASSUME StreamInit PROVE StreamInv
  OBVIOUS
<1>1. arrived = <<>> /\ sse.parser = NewParser /\ sse.stream = NewStream /\ sse.count = 0 /\ sse.first = 0
      /\ sse.raw = <<>>
  BY DEF StreamInit, NewLive
<1>2. <<>> \in Seq({}) /\ IsSeq(<<>>) /\ <<>> \o <<>> = <<>> /\ Len(<<>>) = 0
  BY EmptySeq DEF IsSeq
<1>3. Replayed(<<>>) = NewStream
  <2> DEFINE z == <<>>
  <2> HIDE DEF z
  <2>1. z \in Seq({})
    BY <1>2 DEF z
  <2>2. FoldLeft(StreamPush, NewStream, z) = Folded("replay", NewStream, z)
    BY <2>1, ReplayFold
  <2> QED BY <2>2, FoldEmpty DEF z, Replayed
<1>4. NewStream.text = <<>>
  BY DEF NewStream
<1>5. Push(NewParser, sse.raw).events = <<>> /\ Push(NewParser, sse.raw).parser = NewParser
  BY <1>1, PushNothing DEF Out
<1>6. LiveIsWhole
  BY <1>1, <1>2, <1>3, <1>4, <1>5 DEF LiveIsWhole
<1>7. MissesAfterCap
  BY <1>1, <1>2, EmptySeq DEF MissesAfterCap
<1> QED BY <1>6, <1>7 DEF StreamInv

LEMMA ChunkTaken ==
  ASSUME NEW chunk \in Seq(Octets), LiveIsWhole, MissesAfterCap, ~ (Len(sse.raw) >= LiveBytes),
         sse' = LivePush(sse, chunk, 1)
  PROVE  LiveIsWhole' /\ sse.raw' = sse.raw \o chunk
<1> DEFINE one == Push(NewParser, sse.raw)
           two == Push(sse.parser, chunk)
           brings == Brings(two.events)
           first == IF sse.first = 0 /\ brings THEN 1 ELSE sse.first
           stream == FoldLeft(StreamPush, sse.stream, two.events)
           whole == Push(NewParser, sse.raw \o chunk)
<1>1. sse' = [parser |-> two.parser, stream |-> stream, count |-> sse.count + Len(two.events),
              first |-> first, raw |-> sse.raw \o chunk]
  BY Zenon DEF LivePush, Brings
<1>2. IsSeq(one.events) /\ sse.parser = one.parser /\ sse.stream = FoldLeft(StreamPush, NewStream, one.events)
      /\ sse.count = Len(one.events) /\ IsSeq(sse.stream.text) /\ (sse.first # 0 <=> sse.stream.text # <<>>)
  BY Zenon DEF LiveIsWhole, Replayed
<1>3. sse.raw \in Seq(Octets)
  BY DEF MissesAfterCap
<1>4. IsSeq(two.events) /\ whole = Out(two.parser, one.events \o two.events)
  <2> DEFINE raw == sse.raw
             p == one.parser
             t == Push(p, chunk)
  <2>1. raw \in Seq(Octets) /\ one = Push(NewParser, raw) /\ two = t
    BY <1>2, <1>3
  <2> HIDE DEF raw, one
  <2>2. IsSeq(t.events) /\ Push(NewParser, raw \o chunk) = Out(t.parser, one.events \o t.events)
    BY <2>1, PushTwice
  <2> QED BY <2>1, <2>2 DEF raw
<1> HIDE DEF one, two, brings, first, stream, whole
<1>5. sse'.parser = two.parser /\ sse'.stream = stream /\ sse'.count = sse.count + Len(two.events)
      /\ sse'.first = first /\ sse'.raw = sse.raw \o chunk
  BY <1>1
<1>6. whole.parser = two.parser /\ whole.events = one.events \o two.events
  BY <1>4 DEF Out
<1>7. IsSeq(whole.events) /\ sse'.count = Len(whole.events)
  <2> DEFINE e1 == one.events
             e2 == two.events
  <2>1. IsSeq(e1) /\ IsSeq(e2) /\ whole.events = e1 \o e2 /\ sse'.count = Len(e1) + Len(e2)
    BY <1>2, <1>4, <1>5, <1>6
  <2> HIDE DEF e1, e2
  <2>2. IsSeq(e1 \o e2) /\ Len(e1 \o e2) = Len(e1) + Len(e2)
    BY <2>1, SeqConcat
  <2> QED BY <2>1, <2>2
<1>8. stream = FoldLeft(StreamPush, NewStream, whole.events)
  BY <1>2, <1>4, <1>6, ReplayMore DEF stream
<1>9. PICK more : Adds(sse.stream, two.events, more)
  BY <1>2, <1>4, TextGrows
<1>10. IsSeq(more) /\ (more # <<>> <=> brings) /\ stream.text = sse.stream.text \o more
  BY <1>9 DEF Adds, stream, brings
<1>11. IsSeq(stream.text) /\ (stream.text = <<>> <=> sse.stream.text = <<>> /\ more = <<>>)
  BY <1>2, <1>10, SeqConcat
<1>12. first # 0 <=> stream.text # <<>>
  BY <1>2, <1>10, <1>11 DEF first
<1>13. whole = Push(NewParser, sse'.raw)
  BY <1>5 DEF whole
<1>14. LiveIsWhole'
  BY <1>5, <1>6, <1>7, <1>8, <1>11, <1>12, <1>13 DEF LiveIsWhole, Replayed
<1> QED BY <1>5, <1>14

LEMMA StreamStep == StreamInv /\ [Receive]_streamVars => StreamInv'
<1> SUFFICES ASSUME StreamInv, [Receive]_streamVars PROVE StreamInv'
  OBVIOUS
<1>1. CASE UNCHANGED streamVars
  BY <1>1 DEF streamVars, StreamInv, LiveIsWhole, MissesAfterCap
<1>2. CASE Receive
  <2>1. PICK n \in 1..MaxChunk : \E chunk \in [1..n -> Octets] :
          arrived' = arrived \o chunk /\ sse' = LivePush(sse, chunk, 1)
    BY <1>2 DEF Receive
  <2>2. PICK chunk \in [1..n -> Octets] : arrived' = arrived \o chunk /\ sse' = LivePush(sse, chunk, 1)
    BY <2>1
  <2>3. chunk \in Seq(Octets)
    BY <2>2
  <2>4. PICK rest \in Seq(Octets) : arrived = sse.raw \o rest /\ (rest # <<>> => Len(sse.raw) >= LiveBytes)
    BY DEF StreamInv, MissesAfterCap
  <2>5. sse.raw \in Seq(Octets)
    BY DEF StreamInv, MissesAfterCap
  <2>6. CASE Len(sse.raw) >= LiveBytes
    <3>1. sse' = sse
      BY <2>2, <2>6, Zenon DEF LivePush
    <3>2. LiveIsWhole'
      BY <3>1 DEF StreamInv, LiveIsWhole
    <3>3. rest \o chunk \in Seq(Octets) /\ arrived' = sse.raw \o (rest \o chunk)
      <4>1. (sse.raw \o rest) \o chunk = sse.raw \o (rest \o chunk)
        <5> DEFINE raw == sse.raw
        <5>1. raw \in Seq(Octets)
          BY <2>5
        <5> HIDE DEF raw
        <5>2. (raw \o rest) \o chunk = raw \o (rest \o chunk)
          BY <2>3, <2>4, <5>1, ConcatAssociative
        <5> QED BY <5>2 DEF raw
      <4> QED BY <2>2, <2>3, <2>4, <4>1
    <3>4. MissesAfterCap'
      BY <2>5, <2>6, <3>1, <3>3 DEF MissesAfterCap
    <3> QED BY <3>2, <3>4 DEF StreamInv
  <2>7. CASE ~ (Len(sse.raw) >= LiveBytes)
    <3>1. LiveIsWhole' /\ sse.raw' = sse.raw \o chunk
      BY <2>2, <2>3, <2>7, ChunkTaken DEF StreamInv
    <3>2. rest = <<>> /\ sse.raw \o rest = sse.raw
      BY <2>4, <2>5, <2>7
    <3>3. sse.raw \o chunk \in Seq(Octets) /\ arrived' = (sse.raw \o chunk) \o <<>>
      BY <2>2, <2>3, <2>4, <2>5, <3>2
    <3>4. MissesAfterCap'
      BY <3>1, <3>3, EmptySeq DEF MissesAfterCap
    <3> QED BY <3>1, <3>4 DEF StreamInv
  <2> QED BY <2>6, <2>7
<1> QED BY <1>1, <1>2

LEMMA StreamsAgree == StreamInv => ChunksDoNotMatter
<1> SUFFICES ASSUME StreamInv PROVE ChunksDoNotMatter
  OBVIOUS
<1> DEFINE one == Push(NewParser, sse.raw)
           events == one.events
           last == Finished(one.parser).events
           all == events \o last
           stream == Replayed(all)
           text == sse.stream.text
<1>1. IsSeq(events) /\ sse.stream = Replayed(events) /\ sse.count = Len(events)
      /\ IsSeq(text) /\ (sse.first # 0 <=> text # <<>>)
  BY Zenon DEF StreamInv, LiveIsWhole
<1>2. IsSeq(last)
  BY FinishedEvents
<1>3. ParseAll(sse.raw) = all
  BY Zenon DEF ParseAll
<1>4. SseView(sse.raw) = [shown |-> TRUE, events |-> all, input |-> stream.input, output |-> stream.output,
                          doc |-> IF stream.text = <<>> THEN NoDoc ELSE Doc(stream.text, FALSE)]
  BY <1>3, Zenon DEF SseView
<1> HIDE DEF one, last, text
<1>5. IsPrefix(events, all)
  BY <1>1, <1>2, SeqConcat
<1>6. PICK more : Adds(sse.stream, last, more)
  BY <1>1, <1>2, TextGrows DEF text
<1>7. stream = FoldLeft(StreamPush, sse.stream, last)
  BY <1>1, <1>2, ReplayMore DEF Replayed
<1> HIDE DEF all, stream, events
<1>8. IsSeq(more) /\ stream.text = text \o more
  BY <1>6, <1>7 DEF Adds, text
<1>9. IsPrefix(text, stream.text) /\ (text # <<>> => stream.text # <<>>)
  BY <1>1, <1>8, SeqConcat
<1> DEFINE view == SseView(sse.raw)
<1>10. view.events = all /\ view.doc = IF stream.text = <<>> THEN NoDoc ELSE Doc(stream.text, FALSE)
  BY <1>4
<1>11. Doc(stream.text, FALSE).text = stream.text
  BY DEF Doc
<1> HIDE DEF view
<1>12. text # <<>> => IsPrefix(text, view.doc.text)
  BY <1>9, <1>10, <1>11
<1>13. IsPrefix(sse.raw, arrived) /\ (sse.raw # arrived => Len(sse.raw) >= LiveBytes)
  <2>1. PICK rest \in Seq(Octets) : arrived = sse.raw \o rest /\ (rest # <<>> => Len(sse.raw) >= LiveBytes)
    BY DEF StreamInv, MissesAfterCap
  <2>2. IsSeq(sse.raw) /\ IsSeq(rest)
    BY <2>1 DEF StreamInv, MissesAfterCap, IsSeq
  <2> QED BY <2>1, <2>2, SeqConcat
<1>14. (sse.first # 0) = (text # <<>>)
  BY <1>1
<1> QED BY <1>1, <1>5, <1>10, <1>12, <1>13, <1>14 DEF ChunksDoNotMatter, view, text, events, one

\* What is shown of a stream of events depends on the octets that arrived and not on how they were
\* cut into chunks, and the view of the complete body goes on from it (sse.rs: push;
\* state/response.rs: SseLive, SseView).
THEOREM ChunksAreOne == StreamSpec => []ChunksDoNotMatter
<1>1. StreamInit => StreamInv
  BY StreamStarts
<1>2. StreamInv /\ [Receive]_streamVars => StreamInv'
  BY StreamStep
<1>3. StreamInv => ChunksDoNotMatter
  BY StreamsAgree
<1> QED BY <1>1, <1>2, <1>3, PTL DEF StreamSpec

-----------------------------------------------------------------------------
(* Masks *)

LEMMA MaxIn ==
  ASSUME NEW n \in Nat, NEW X \in SUBSET (1..n), X # {}
  PROVE  Max(X) \in 1..n
<1> DEFINE Good == {k \in Nat : \A Y \in SUBSET (1..k) : Y # {} => \E m \in Y : \A y \in Y : m >= y}
<1>1. 0 \in Good
  <2>1. \A Y \in SUBSET (1..0) : Y = {}
    OBVIOUS
  <2> QED BY <2>1
<1>2. ASSUME NEW k \in Nat, k \in Good PROVE k + 1 \in Good
  <2>1. SUFFICES ASSUME NEW Y \in SUBSET (1..(k + 1)), Y # {} PROVE \E m \in Y : \A y \in Y : m >= y
    OBVIOUS
  <2>2. CASE k + 1 \in Y
    <3>1. \A y \in Y : k + 1 >= y
      OBVIOUS
    <3> QED BY <2>2, <3>1
  <2>3. CASE k + 1 \notin Y
    <3>1. Y \in SUBSET (1..k)
      <4>1. \A i \in Y : i \in 1..k
        BY <2>3
      <4> QED BY <4>1, Zenon
    <3> QED BY <1>2, <2>1, <3>1
  <2> QED BY <2>2, <2>3
<1> HIDE DEF Good
<1>3. n \in Good
  BY <1>1, <1>2, AllNumbers
<1>4. \E m \in X : \A y \in X : m >= y
  BY <1>3 DEF Good
<1>5. Max(X) \in X
  BY <1>4, Zenon DEF Max
<1> QED BY <1>5

\* A fold over the places of a text.
Marked(s, with) == [i \in 1..Len(s) |-> <<s, with, i>>]
Start == [out |-> <<>>, skip |-> 0]

IsMasking(f, s, v) ==
  f = [X \in SUBSET (DOMAIN Indices(s)) |->
         IF X = {} THEN Start ELSE MaskStep(s, v, f[X \ {Max(X)}], Indices(s)[Max(X)])]

RunsMask(f, s, v) ==
  /\ f[{}] = Start
  /\ \A k \in Nat : k + 1 <= Len(s) => f[1..(k + 1)] = MaskStep(s, v, f[1..k], k + 1)

LEMMA MarkedIs ==
  ASSUME NEW S, NEW s \in Seq(S), NEW with, NEW i \in 1..Len(s)
  PROVE  Marked(s, with)[i] = <<s, with, i>> /\ Indices(s)[i] = i
BY DEF Marked, Indices

LEMMA MaskedRun ==
  ASSUME NEW S, NEW s \in Seq(S), NEW v
  PROVE  \E f : RunsMask(f, s, v) /\ Masked(s, v) = f[1..Len(s)].out
<1> DEFINE f == CHOOSE g : IsMasking(g, s, v)
           t == Marked(s, v)
           n == Len(s)
<1>1. n \in Nat /\ DOMAIN Indices(s) = 1..n
  BY DEF Indices
<1>2. Masked(s, v) = f[DOMAIN Indices(s)].out
  BY DEF Masked, FoldLeft, MapThenFoldSet, IsMasking, Start
<1>3. \A g : IsMasking(g, s, v) <=> IsFold(g, "mask", Start, t, n)
  <2>1. ASSUME NEW st, NEW i \in 1..n
        PROVE  FoldStep("mask", st, t[i]) = MaskStep(s, v, st, Indices(s)[i])
    <3>1. t[i] = <<s, v, i>> /\ Indices(s)[i] = i
      BY MarkedIs
    <3>2. FoldStep("mask", st, t[i]) = MaskWhole(st, t[i])
      BY DEF FoldStep
    <3> QED BY <3>1, <3>2 DEF MaskWhole
  <2>2. ASSUME NEW g PROVE IsMasking(g, s, v) <=> IsFold(g, "mask", Start, t, n)
    <3> DEFINE a(X) == IF X = {} THEN Start ELSE MaskStep(s, v, g[X \ {Max(X)}], Indices(s)[Max(X)])
               b(X) == IF X = {} THEN Start ELSE FoldStep("mask", g[X \ {Max(X)}], t[Max(X)])
    <3>1. ASSUME NEW X \in SUBSET (1..n) PROVE a(X) = b(X)
      <4>1. CASE X = {}
        BY <4>1
      <4>2. CASE X # {}
        <5>1. Max(X) \in 1..n
          BY <1>1, <4>2, MaxIn
        <5> QED BY <2>1, <4>2, <5>1
      <4> QED BY <4>1, <4>2
    <3>2. IsMasking(g, s, v) <=> g = [X \in SUBSET (1..n) |-> a(X)]
      BY <1>1 DEF IsMasking
    <3>3. IsFold(g, "mask", Start, t, n) <=> g = [X \in SUBSET (1..n) |-> b(X)]
      BY DEF IsFold
    <3> HIDE DEF a, b
    <3> QED BY <3>1, <3>2, <3>3
  <2> QED BY <2>2
<1>4. \E g : IsFold(g, "mask", Start, t, n)
  BY <1>1, FoldExists
<1>5. IsFold(f, "mask", Start, t, n)
  BY <1>3, <1>4
<1> HIDE DEF f
<1>6. f[{}] = Start
  BY <1>1, <1>5, FoldStarts
<1>7. ASSUME NEW k \in Nat, k + 1 <= n PROVE f[1..(k + 1)] = MaskStep(s, v, f[1..k], k + 1)
  <2>1. f[1..(k + 1)] = FoldStep("mask", f[1..k], t[k + 1])
    <3> DEFINE kind == "mask"
    <3>1. k \in Nat /\ n \in Nat /\ k + 1 <= n /\ IsFold(f, kind, Start, t, n)
      BY <1>1, <1>5, <1>7
    <3> HIDE DEF kind, t, n
    <3>2. f[1..(k + 1)] = FoldStep(kind, f[1..k], t[k + 1])
      BY ONLY <3>1, FoldSteps
    <3> QED BY <3>2 DEF kind
  <2>2. t[k + 1] = <<s, v, k + 1>>
    BY <1>7, MarkedIs
  <2> QED BY <2>1, <2>2 DEF FoldStep, MaskWhole
<1> QED BY <1>1, <1>2, <1>6, <1>7 DEF RunsMask

-----------------------------------------------------------------------------
(* What a text is after masking *)

Copied(s, v, out, b, j) == b[j + 1] = b[j] + 1 /\ out[j] = s[b[j]] /\ ~ OccursAt(s, v, b[j])
Hidden(s, v, out, b, j) == b[j + 1] = b[j] + Len(v) /\ out[j] = Mask /\ OccursAt(s, v, b[j])

\* Each symbol of what is written stands for a stretch of the text from b[j] on:
\* for one symbol at which no occurrence starts, or for an occurrence.
Shaped(s, v, out, b, k) ==
  /\ b \in Seq(Nat) /\ Len(b) = Len(out) + 1 /\ b[1] = 1 /\ b[Len(out) + 1] = k + 1
  /\ k \in Nat /\ k <= Len(s)
  /\ \A j \in 1..Len(out) : Copied(s, v, out, b, j) \/ Hidden(s, v, out, b, j)

LEMMA ShapeStarts ==
  ASSUME NEW S, NEW s \in Seq(S), NEW v
  PROVE  Shaped(s, v, <<>>, <<1>>, 0)
BY DEF Shaped

LEMMA ShapeGrows ==
  ASSUME NEW S, NEW s \in Seq(S), NEW v, NEW T, NEW out \in Seq(T), NEW x \in T,
         NEW b, NEW k, Shaped(s, v, out, b, k), NEW d \in Nat, k + d <= Len(s),
         \/ d = 1 /\ x = s[k + 1] /\ ~ OccursAt(s, v, k + 1)
         \/ d = Len(v) /\ x = Mask /\ OccursAt(s, v, k + 1)
  PROVE  Shaped(s, v, Append(out, x), Append(b, k + d + 1), k + d)
<1> DEFINE n == Len(out)
           o2 == Append(out, x)
           b2 == Append(b, k + d + 1)
<1>1. n \in Nat /\ k \in Nat /\ b \in Seq(Nat) /\ Len(b) = n + 1 /\ b[1] = 1 /\ b[n + 1] = k + 1
  BY DEF Shaped
<1>2. /\ Len(o2) = n + 1 /\ o2[n + 1] = x /\ \A j \in 1..n : o2[j] = out[j]
      /\ b2 \in Seq(Nat) /\ Len(b2) = n + 2 /\ b2[n + 2] = k + d + 1 /\ \A j \in 1..(n + 1) : b2[j] = b[j]
  BY <1>1
<1>3. ASSUME NEW j \in 1..n PROVE Copied(s, v, o2, b2, j) \/ Hidden(s, v, o2, b2, j)
  <2>1. Copied(s, v, out, b, j) \/ Hidden(s, v, out, b, j)
    BY DEF Shaped
  <2>2. j \in 1..(n + 1) /\ j + 1 \in 1..(n + 1)
    BY <1>1
  <2>3. o2[j] = out[j] /\ b2[j] = b[j] /\ b2[j + 1] = b[j + 1]
    BY <1>2, <2>2
  <2> HIDE DEF o2, b2
  <2> QED BY <2>1, <2>3 DEF Copied, Hidden
<1>4. Copied(s, v, o2, b2, n + 1) \/ Hidden(s, v, o2, b2, n + 1)
  <2>1. b2[n + 1] = k + 1 /\ b2[n + 1 + 1] = k + d + 1 /\ o2[n + 1] = x
    BY <1>1, <1>2
  <2>2. k + d + 1 = (k + 1) + d
    BY <1>1
  <2> HIDE DEF o2, b2
  <2> QED BY <2>1, <2>2 DEF Copied, Hidden
<1>5. \A j \in 1..(n + 1) : j \in 1..n \/ j = n + 1
  BY <1>1
<1>6. \A j \in 1..(n + 1) : Copied(s, v, o2, b2, j) \/ Hidden(s, v, o2, b2, j)
  BY <1>3, <1>4, <1>5
<1>7. b2[1] = 1 /\ k + d \in Nat /\ Len(b2) = Len(o2) + 1 /\ b2[Len(o2) + 1] = k + d + 1
  BY <1>1, <1>2
<1> HIDE DEF o2, b2
<1>8. Shaped(s, v, o2, b2, k + d)
  BY <1>2, <1>6, <1>7 DEF Shaped
<1> QED BY <1>8 DEF o2, b2

Reached(S, s, v, st, k) ==
  /\ st.skip \in Nat /\ st.out \in Seq(S \cup {Mask})
  /\ \E b : Shaped(s, v, st.out, b, k + st.skip)

LEMMA ReachedBy ==
  ASSUME NEW S, NEW s, NEW v, NEW out \in Seq(S \cup {Mask}), NEW skip \in Nat, NEW k, NEW b,
         Shaped(s, v, out, b, k + skip)
  PROVE  Reached(S, s, v, [out |-> out, skip |-> skip], k)
<1> DEFINE st == [out |-> out, skip |-> skip]
<1>1. st.out = out /\ st.skip = skip
  OBVIOUS
<1> HIDE DEF st
<1>2. Reached(S, s, v, st, k)
  BY <1>1, Zenon DEF Reached
<1> QED BY <1>2 DEF st

LEMMA ReachedNext ==
  ASSUME NEW S, NEW s \in Seq(S), NEW v \in Seq(S), v # <<>>, NEW st, NEW k \in Nat, k + 1 <= Len(s),
         Reached(S, s, v, st, k)
  PROVE  Reached(S, s, v, MaskStep(s, v, st, k + 1), k + 1)
<1> DEFINE out == st.out
           T == S \cup {Mask}
<1>1. st.skip \in Nat /\ out \in Seq(T)
  BY DEF Reached
<1>2. PICK b : Shaped(s, v, out, b, k + st.skip)
  BY DEF Reached
<1>3. Len(v) \in Nat /\ Len(v) >= 1
  BY EmptySeq
<1> HIDE DEF out, T
<1>4. CASE st.skip > 0
  <2>1. MaskStep(s, v, st, k + 1) = [out |-> out, skip |-> st.skip - 1]
    BY <1>4 DEF MaskStep, out
  <2> DEFINE left == st.skip - 1
             k2 == k + 1
  <2>2. k2 + left = k + st.skip /\ left \in Nat
    <3>1. \A m \in Nat : m > 0 => k + 1 + (m - 1) = k + m /\ m - 1 \in Nat
      OBVIOUS
    <3> QED BY <1>1, <1>4, <3>1
  <2> HIDE DEF left
  <2>3. Shaped(s, v, out, b, k2 + left)
    BY <1>2, <2>2
  <2>4. out \in Seq(S \cup {Mask})
    BY <1>1 DEF T
  <2> HIDE DEF k2
  <2>5. Reached(S, s, v, [out |-> out, skip |-> left], k2)
    BY ONLY <2>2, <2>3, <2>4, ReachedBy
  <2> QED BY <2>1, <2>5 DEF left, k2
<1>5. CASE st.skip = 0 /\ OccursAt(s, v, k + 1)
  <2> DEFINE o2 == Append(out, Mask)
             k2 == k + Len(v)
  <2>1. MaskStep(s, v, st, k + 1) = [out |-> o2, skip |-> Len(v) - 1]
    BY <1>1, <1>5 DEF MaskStep, out
  <2>2. k + Len(v) <= Len(s) /\ k + st.skip = k
    BY <1>3, <1>5 DEF OccursAt
  <2>3. Mask \in T
    BY DEF T
  <2>4. Shaped(s, v, o2, Append(b, k2 + 1), k2)
    BY <1>1, <1>2, <1>3, <1>5, <2>2, <2>3, ShapeGrows
  <2>5. o2 \in Seq(T)
    BY <1>1, <2>3
  <2> DEFINE left == Len(v) - 1
             k3 == k + 1
  <2>6. k3 + left = k2 /\ left \in Nat
    BY <1>3
  <2> HIDE DEF o2, k2, left
  <2>7. Shaped(s, v, o2, Append(b, k2 + 1), k3 + left) /\ o2 \in Seq(S \cup {Mask})
    BY <2>4, <2>5, <2>6 DEF T
  <2> HIDE DEF k3
  <2>8. Reached(S, s, v, [out |-> o2, skip |-> left], k3)
    BY ONLY <2>6, <2>7, ReachedBy
  <2> QED BY <2>1, <2>8 DEF left, k3
<1>6. CASE st.skip = 0 /\ ~ OccursAt(s, v, k + 1)
  <2> DEFINE x == s[k + 1]
             o2 == Append(out, x)
             k2 == k + 1
  <2>1. MaskStep(s, v, st, k + 1) = [out |-> o2, skip |-> 0]
    BY <1>1, <1>6 DEF MaskStep, out
  <2>2. x \in T /\ k + st.skip = k
    BY <1>6 DEF T
  <2>3. Shaped(s, v, o2, Append(b, k2 + 1), k2)
    BY <1>1, <1>2, <1>6, <2>2, ShapeGrows
  <2>4. o2 \in Seq(T)
    BY <1>1, <2>2
  <2>5. k2 + 0 = k2 /\ 0 \in Nat
    OBVIOUS
  <2> HIDE DEF o2, k2
  <2>6. Shaped(s, v, o2, Append(b, k2 + 1), k2 + 0) /\ o2 \in Seq(S \cup {Mask})
    BY <2>3, <2>4, <2>5 DEF T
  <2>7. Reached(S, s, v, [out |-> o2, skip |-> 0], k2)
    BY ONLY <2>5, <2>6, ReachedBy
  <2> QED BY <2>1, <2>7 DEF k2
<1> QED BY <1>1, <1>4, <1>5, <1>6

\* A masked text has such a shape, with all of the text in it.
LEMMA MaskedShape ==
  ASSUME NEW S, NEW s \in Seq(S), NEW v \in Seq(S), v # <<>>
  PROVE  Masked(s, v) \in Seq(S \cup {Mask}) /\ \E b : Shaped(s, v, Masked(s, v), b, Len(s))
<1>1. PICK f : RunsMask(f, s, v) /\ Masked(s, v) = f[1..Len(s)].out
  BY MaskedRun
<1> DEFINE Good == {k \in Nat : k <= Len(s) => Reached(S, s, v, f[1..k], k)}
<1>2. 0 \in Good
  <2>1. 1..0 = {} /\ 0 + 0 = 0
    OBVIOUS
  <2>2. f[1..0] = [out |-> <<>>, skip |-> 0]
    BY <1>1, <2>1 DEF RunsMask, Start
  <2>3. Shaped(s, v, <<>>, <<1>>, 0)
    BY ShapeStarts
  <2> DEFINE none == <<>>
             b == <<1>>
  <2>4. none \in Seq(S \cup {Mask})
    OBVIOUS
  <2> HIDE DEF none, b
  <2>5. Shaped(s, v, none, b, 0 + 0) /\ 0 \in Nat
    BY <2>1, <2>3 DEF none, b
  <2>6. Reached(S, s, v, [out |-> none, skip |-> 0], 0)
    BY ONLY <2>4, <2>5, ReachedBy
  <2> QED BY <2>2, <2>6 DEF none
<1>3. ASSUME NEW k \in Nat, k \in Good PROVE k + 1 \in Good
  <2>1. SUFFICES ASSUME k + 1 <= Len(s) PROVE Reached(S, s, v, f[1..(k + 1)], k + 1)
    OBVIOUS
  <2>2. Reached(S, s, v, f[1..k], k)
    BY <1>3, <2>1
  <2>3. f[1..(k + 1)] = MaskStep(s, v, f[1..k], k + 1)
    BY <1>1, <2>1 DEF RunsMask
  <2> QED BY <2>1, <2>2, <2>3, ReachedNext
<1> HIDE DEF Good
<1>4. Len(s) \in Good
  BY <1>2, <1>3, AllNumbers
<1> DEFINE st == f[1..Len(s)]
<1>5. Reached(S, s, v, st, Len(s))
  BY <1>4 DEF Good
<1> HIDE DEF st
<1>6. st.skip = 0
  BY <1>5 DEF Reached, Shaped
<1>7. Len(s) + 0 = Len(s)
  OBVIOUS
<1>8. Masked(s, v) = st.out
  BY <1>1 DEF st
<1> QED BY <1>5, <1>6, <1>7, <1>8 DEF Reached

-----------------------------------------------------------------------------
(* Stretches and occurrences *)

\* The ends of n stretches, one after the other.
Rising(b, n) == n \in Nat /\ b \in Seq(Nat) /\ Len(b) = n + 1 /\ \A j \in 1..n : b[j] < b[j + 1]

LEMMA RisingOrder ==
  ASSUME NEW b, NEW n, Rising(b, n)
  PROVE  /\ \A j \in 1..(n + 1) : b[j] \in Nat
         /\ \A j, l \in 1..(n + 1) : j < l => b[j] < b[l]
<1> DEFINE Good == {l \in Nat : l <= n + 1 => \A j \in 1..(n + 1) : j < l => b[j] < b[l]}
<1>1. n \in Nat /\ \A j \in 1..(n + 1) : b[j] \in Nat
  BY DEF Rising
<1>2. 0 \in Good
  <2>1. \A j \in 1..(n + 1) : ~ (j < 0)
    BY <1>1
  <2> QED BY <2>1
<1>3. ASSUME NEW l \in Nat, l \in Good PROVE l + 1 \in Good
  <2>1. SUFFICES ASSUME l + 1 <= n + 1, NEW j \in 1..(n + 1), j < l + 1 PROVE b[j] < b[l + 1]
    OBVIOUS
  <2>2. l \in 1..n /\ l \in 1..(n + 1) /\ l + 1 \in 1..(n + 1)
    BY <1>1, <2>1
  <2>3. b[l] < b[l + 1]
    BY <2>2 DEF Rising
  <2>4. CASE j = l
    BY <2>3, <2>4, Zenon
  <2>5. CASE j < l
    <3>1. b[j] < b[l]
      BY <1>3, <2>1, <2>2, <2>5
    <3>2. b[j] \in Nat /\ b[l] \in Nat /\ b[l + 1] \in Nat
      BY <1>1, <2>2
    <3> QED BY <2>3, <3>1, <3>2
  <2> QED BY <2>1, <2>4, <2>5
<1> HIDE DEF Good
<1>4. Nat \subseteq Good
  BY <1>2, <1>3, AllNumbers
<1>5. ASSUME NEW j \in 1..(n + 1), NEW l \in 1..(n + 1), j < l PROVE b[j] < b[l]
  <2>1. l \in Good /\ l <= n + 1
    BY <1>4
  <2> QED BY <1>5, <2>1 DEF Good
<1> QED BY <1>1, <1>5

\* Every place is in a stretch.
LEMMA InStretch ==
  ASSUME NEW b, NEW n, Rising(b, n), NEW p \in Nat, b[1] <= p, p < b[n + 1]
  PROVE  \E j \in 1..n : b[j] <= p /\ p < b[j + 1]
<1> DEFINE Good == {k \in Nat : k <= n /\ p < b[k + 1] => \E j \in 1..n : b[j] <= p /\ p < b[j + 1]}
<1>1. n \in Nat /\ \A j \in 1..(n + 1) : b[j] \in Nat
  BY RisingOrder DEF Rising
<1>2. 0 \in Good
  <2>1. b[0 + 1] = b[1] /\ b[1] \in Nat
    BY <1>1
  <2> QED BY <2>1
<1>3. ASSUME NEW k \in Nat, k \in Good PROVE k + 1 \in Good
  <2>1. SUFFICES ASSUME k + 1 <= n, p < b[k + 1 + 1] PROVE \E j \in 1..n : b[j] <= p /\ p < b[j + 1]
    OBVIOUS
  <2>2. k + 1 \in 1..n /\ k <= n /\ b[k + 1] \in Nat
    BY <1>1, <2>1
  <2> QED BY <1>3, <2>1, <2>2
<1> HIDE DEF Good
<1>4. n \in Good
  BY <1>1, <1>2, <1>3, AllNumbers
<1> QED BY <1>1, <1>4 DEF Good

LEMMA OccursIs ==
  ASSUME NEW S, NEW s \in Seq(S), NEW T, NEW w \in Seq(T), NEW i \in Nat, i >= 1
  PROVE  OccursAt(s, w, i) <=> (i + Len(w) <= Len(s) + 1 /\ \A m \in 1..Len(w) : s[i + m - 1] = w[m])
<1> DEFINE U == S \cup T
           n == Len(w)
<1>1. s \in Seq(U) /\ w \in Seq(U) /\ n \in Nat
  OBVIOUS
<1> HIDE DEF U
<1>2. SUFFICES ASSUME i + n <= Len(s) + 1
               PROVE  (SubSeq(s, i, i + n - 1) = w) <=> \A m \in 1..n : s[i + m - 1] = w[m]
  BY DEF OccursAt
<1> DEFINE u == SubSeq(s, i, i + n - 1)
<1>3. u \in Seq(U) /\ Len(u) = n /\ \A m \in 1..n : u[m] = s[i + m - 1]
  <2>1. \A m \in i..(i + n - 1) : m \in 1..Len(s)
    BY <1>1, <1>2
  <2>2. u \in Seq(U)
    BY <1>1, <2>1, SubSeqProperties
  <2>3. Len(u) = n
    BY <1>1, <1>2, SubSeqProperties
  <2>4. ASSUME NEW m \in 1..n PROVE u[m] = s[i + m - 1]
    BY <1>1, <1>2, SubSeqProperties
  <2> QED BY <2>2, <2>3, <2>4
<1> HIDE DEF u, n
<1>4. (u = w) <=> \A m \in 1..n : u[m] = w[m]
  BY <1>1, <1>3, SeqEqual DEF n
<1> QED BY <1>3, <1>4 DEF u

\* What is no mask in a text stands for one symbol of another.
Retells(t, s, a) ==
  \A j \in 1..Len(t) : t[j] # Mask => a[j + 1] = a[j] + 1 /\ t[j] = s[a[j]]

Ends(s, a) == \A j \in 1..Len(a) : a[j] \in Nat /\ a[j] >= 1 /\ a[j] <= Len(s) + 1

Threads(t, s, a) ==
  /\ IsSeq(t) /\ IsSeq(s) /\ a \in Seq(Nat) /\ Len(a) = Len(t) + 1
  /\ Retells(t, s, a) /\ Ends(s, a)

\* So an occurrence without a mask stands for an occurrence.
LEMMA OccursThere ==
  ASSUME NEW S, Mask \notin S, NEW t, NEW s, NEW a, Threads(t, s, a),
         NEW w \in Seq(S), NEW y \in Nat, y >= 1, OccursAt(t, w, y)
  PROVE  /\ OccursAt(s, w, a[y])
         /\ \A m \in 0..Len(w) : y + m \in 1..Len(a) /\ a[y + m] = a[y] + m
<1>1. PICK T : t \in Seq(T)
  BY DEF Threads, IsSeq
<1>2. PICK U : s \in Seq(U)
  BY DEF Threads, IsSeq
<1>3. a \in Seq(Nat) /\ Len(a) = Len(t) + 1 /\ Retells(t, s, a) /\ Ends(s, a)
  BY DEF Threads
<1> DEFINE n == Len(w)
<1>4. n \in Nat /\ y + n <= Len(t) + 1 /\ \A m \in 1..n : t[y + m - 1] = w[m]
  BY <1>1, OccursIs
<1>5. \A m \in 0..n : y + m \in 1..Len(a)
  BY <1>4, <1>3
<1> DEFINE Good == {m \in Nat : m <= n => a[y + m] = a[y] + m}
<1>6. a[y] \in Nat /\ a[y] >= 1
  <2>1. y \in 1..Len(a)
    BY <1>4, <1>1, <1>3
  <2> QED BY <1>3, <2>1 DEF Ends
<1>7. ASSUME NEW m \in Nat, m < n
      PROVE  y + m \in 1..Len(t) /\ t[y + m] = w[m + 1] /\ t[y + m] # Mask
  <2>1. m + 1 \in 1..n /\ y + (m + 1) - 1 = y + m
    BY <1>7
  <2>2. t[y + (m + 1) - 1] = w[m + 1]
    BY <1>4, <2>1
  <2>3. w[m + 1] \in S
    BY <2>1
  <2>4. y + m \in 1..Len(t)
    BY <1>4, <1>7, <1>1
  <2> HIDE DEF n
  <2>5. t[y + m] = w[m + 1]
    BY <2>1, <2>2
  <2> QED BY <2>3, <2>4, <2>5
<1>8. 0 \in Good
  BY <1>6
<1>9. ASSUME NEW m \in Nat, m \in Good PROVE m + 1 \in Good
  <2>1. SUFFICES ASSUME m + 1 <= n PROVE a[y + (m + 1)] = a[y] + (m + 1)
    OBVIOUS
  <2>2. a[y + m] = a[y] + m /\ m < n
    BY <1>4, <1>9, <2>1
  <2>3. a[y + m + 1] = a[y + m] + 1
    <3>1. y + m \in 1..Len(t) /\ t[y + m] # Mask
      BY <1>7, <2>2
    <3> QED BY <1>3, <3>1 DEF Retells
  <2>4. y + m + 1 = y + (m + 1) /\ a[y] + m + 1 = a[y] + (m + 1)
    <3>1. \A k \in Nat : y + m + 1 = y + (m + 1) /\ k + m + 1 = k + (m + 1)
      OBVIOUS
    <3> QED BY <1>6, <3>1
  <2> QED BY <2>2, <2>3, <2>4
<1> HIDE DEF Good
<1>10. Nat \subseteq Good
  BY <1>8, <1>9, AllNumbers
<1>11. \A m \in 0..n : a[y + m] = a[y] + m
  BY <1>10 DEF Good
<1>12. a[y] + n <= Len(s) + 1
  <2>1. y + n \in 1..Len(a) /\ a[y + n] = a[y] + n
    BY <1>4, <1>5, <1>11
  <2> QED BY <1>3, <2>1 DEF Ends
<1>13. ASSUME NEW m \in 1..n PROVE s[a[y] + m - 1] = w[m]
  <2> DEFINE k == m - 1
  <2>1. k \in Nat /\ k < n /\ k + 1 = m /\ a[y] + m - 1 = a[y] + k
    BY <1>6
  <2> HIDE DEF k
  <2>2. t[y + k] = w[m] /\ t[y + k] = s[a[y + k]]
    BY <1>7, <1>3, <2>1 DEF Retells
  <2>3. a[y + k] = a[y] + k
    BY <1>10, <2>1 DEF Good
  <2> QED BY <2>1, <2>2, <2>3
<1>14. OccursAt(s, w, a[y])
  BY <1>6, <1>12, <1>13, <1>2, OccursIs
<1> QED BY <1>5, <1>11, <1>14

-----------------------------------------------------------------------------
(* What masking takes away, and what it leaves *)

\* A text with masks over the letters S.
MaskedText(S, t) == t \in Seq(S \cup {Mask})

LEMMA ShapedRises ==
  ASSUME NEW s, NEW v, Len(v) \in Nat, Len(v) >= 1, NEW T, NEW out \in Seq(T), NEW b, NEW k,
         Shaped(s, v, out, b, k)
  PROVE  Rising(b, Len(out))
<1>1. b \in Seq(Nat) /\ Len(b) = Len(out) + 1 /\ Len(out) \in Nat
  BY DEF Shaped
<1>2. ASSUME NEW j \in 1..Len(out) PROVE b[j] < b[j + 1]
  <2>1. b[j + 1] = b[j] + 1 \/ b[j + 1] = b[j] + Len(v)
    BY DEF Shaped, Copied, Hidden
  <2>2. b[j] \in Nat
    BY <1>1
  <2> QED BY <2>1, <2>2
<1> QED BY <1>1, <1>2 DEF Rising

LEMMA ShapedEnds ==
  ASSUME NEW S, NEW s \in Seq(S), NEW v, Len(v) \in Nat, Len(v) >= 1, NEW T, NEW out \in Seq(T), NEW b,
         Shaped(s, v, out, b, Len(s))
  PROVE  /\ Ends(s, b) /\ b[1] = 1 /\ b[Len(out) + 1] = Len(s) + 1
         /\ b \in Seq(Nat) /\ Len(b) = Len(out) + 1 /\ Rising(b, Len(out))
<1> DEFINE n == Len(out)
<1>1. Rising(b, n)
  BY ShapedRises
<1>2. b[1] = 1 /\ b[n + 1] = Len(s) + 1 /\ b \in Seq(Nat) /\ Len(b) = n + 1 /\ n \in Nat
  BY DEF Shaped
<1>3. /\ \A j \in 1..(n + 1) : b[j] \in Nat
      /\ \A j, l \in 1..(n + 1) : j < l => b[j] < b[l]
  BY <1>1, RisingOrder
<1> HIDE DEF n
<1>4. ASSUME NEW j \in 1..Len(b) PROVE b[j] \in Nat /\ b[j] >= 1 /\ b[j] <= Len(s) + 1
  <2>1. j \in 1..(n + 1) /\ 1 \in 1..(n + 1) /\ n + 1 \in 1..(n + 1) /\ b[j] \in Nat
    BY <1>2, <1>3
  <2>2. b[j] >= 1
    <3>1. CASE j = 1
      BY <1>2, <3>1
    <3>2. CASE j > 1
      BY <1>2, <1>3, <2>1, <3>2
    <3> QED BY <2>1, <3>1, <3>2
  <2>3. b[j] <= Len(s) + 1
    <3>1. CASE j = n + 1
      BY <1>2, <3>1
    <3>2. CASE j < n + 1
      BY <1>2, <1>3, <2>1, <3>2
    <3> QED BY <1>2, <2>1, <3>1, <3>2
  <2> QED BY <2>1, <2>2, <2>3
<1> QED BY <1>1, <1>2, <1>4 DEF Ends, n

LEMMA ShapedFollows ==
  ASSUME NEW s, NEW v, NEW out, NEW b, NEW k, Shaped(s, v, out, b, k)
  PROVE  Retells(out, s, b)
BY DEF Shaped, Retells, Copied, Hidden

NoneOf(s, w) == \A i \in Nat : i >= 1 => ~ OccursAt(s, w, i)

\* After masking a value it does not occur, nor does what did not occur before.
LEMMA MaskRemoves ==
  ASSUME NEW S, Mask \notin S, NEW t, MaskedText(S, t), NEW v \in Seq(S), v # <<>>
  PROVE  /\ MaskedText(S, Masked(t, v))
         /\ NoneOf(Masked(t, v), v)
         /\ \A w \in Seq(S) : NoneOf(t, w) => NoneOf(Masked(t, v), w)
<1> DEFINE T == S \cup {Mask}
           out == Masked(t, v)
<1>1. t \in Seq(T) /\ v \in Seq(T) /\ T \cup {Mask} = T
  BY DEF MaskedText
<1>2. Len(v) \in Nat /\ Len(v) >= 1
  BY EmptySeq
<1>3. out \in Seq(T) /\ \E b : Shaped(t, v, out, b, Len(t))
  <2>1. out \in Seq(T \cup {Mask}) /\ \E b : Shaped(t, v, out, b, Len(t))
    <3> HIDE DEF T
    <3> QED BY <1>1, MaskedShape
  <2> QED BY <1>1, <2>1
<1>4. PICK b : Shaped(t, v, out, b, Len(t))
  BY <1>3
<1> HIDE DEF T, out
<1>5. Threads(out, t, b)
  BY <1>1, <1>2, <1>3, <1>4, ShapedEnds, ShapedFollows DEF Threads, IsSeq
<1>6. ASSUME NEW w \in Seq(S), NEW i \in Nat, i >= 1, OccursAt(out, w, i)
      PROVE  OccursAt(t, w, b[i]) /\ b[i] \in Nat /\ b[i] >= 1
  <2>1. OccursAt(t, w, b[i]) /\ \A m \in 0..Len(w) : i + m \in 1..Len(b) /\ b[i + m] = b[i] + m
    BY <1>5, <1>6, OccursThere
  <2>2. 0 \in 0..Len(w) /\ i + 0 = i
    OBVIOUS
  <2>3. i \in 1..Len(b)
    BY <2>1, <2>2
  <2> QED BY <1>5, <2>1, <2>3 DEF Threads, Ends
<1>7. ASSUME NEW i \in Nat, i >= 1, OccursAt(out, v, i) PROVE FALSE
  <2>1. OccursAt(t, v, b[i])
    BY <1>6, <1>7
  <2>2. i \in 1..Len(out) /\ out[i] = v[1]
    <3>1. i + Len(v) <= Len(out) + 1 /\ \A m \in 1..Len(v) : out[i + m - 1] = v[m]
      BY <1>3, <1>7, OccursIs
    <3>2. 1 \in 1..Len(v) /\ i + 1 - 1 = i
      BY <1>2
    <3>3. out[i + 1 - 1] = v[1]
      BY <3>1, <3>2
    <3>4. Len(out) \in Nat
      BY <1>3
    <3>5. i \in 1..Len(out)
      BY <1>2, <1>7, <3>1, <3>4
    <3> QED BY ONLY <3>2, <3>3, <3>5, Zenon
  <2>3. v[1] \in S
    BY <1>2
  <2>4. Copied(t, v, out, b, i) \/ Hidden(t, v, out, b, i)
    BY <1>4, <2>2 DEF Shaped
  <2> QED BY <2>1, <2>2, <2>3, <2>4 DEF Copied, Hidden
<1>8. \A w \in Seq(S) : NoneOf(t, w) => NoneOf(out, w)
  BY <1>6 DEF NoneOf
<1>9. NoneOf(out, v)
  BY <1>7 DEF NoneOf
<1> QED BY <1>3, <1>8, <1>9 DEF MaskedText, T, out

-----------------------------------------------------------------------------
(* A masked text and the text it was *)

\* Each symbol of a masked text is one of the text, outside of C, or a mask for a
\* stretch of places of C.
Stays(t, s, C, a, j) == a[j + 1] = a[j] + 1 /\ t[j] = s[a[j]] /\ a[j] \notin C
Goes(t, C, a, j) ==
  /\ a[j] < a[j + 1] /\ t[j] = Mask
  /\ \A p \in Nat : a[j] <= p /\ p < a[j + 1] => p \in C

Traces(t, s, C, a) ==
  /\ a \in Seq(Nat) /\ Len(a) = Len(t) + 1 /\ a[1] = 1 /\ a[Len(t) + 1] = Len(s) + 1
  /\ \A j \in 1..Len(t) : Stays(t, s, C, a, j) \/ Goes(t, C, a, j)

LEMMA TracesRise ==
  ASSUME NEW t, IsSeq(t), NEW s, IsSeq(s), NEW C, NEW a, Traces(t, s, C, a)
  PROVE  Rising(a, Len(t)) /\ Threads(t, s, a)
<1> DEFINE n == Len(t)
           L == Len(s)
<1>1. n \in Nat /\ L \in Nat
  BY DEF IsSeq
<1>2. a \in Seq(Nat) /\ Len(a) = n + 1 /\ a[1] = 1 /\ a[n + 1] = L + 1
  BY DEF Traces
<1>3. \A j \in 1..n : Stays(t, s, C, a, j) \/ Goes(t, C, a, j)
  BY DEF Traces
<1> HIDE DEF n, L
<1>4. ASSUME NEW j \in 1..n PROVE a[j] < a[j + 1]
  <2>1. a[j] \in Nat
    BY <1>1, <1>2
  <2> QED BY <1>3, <2>1 DEF Stays, Goes
<1>5. Rising(a, n)
  BY <1>1, <1>2, <1>4 DEF Rising
<1>6. /\ \A j \in 1..(n + 1) : a[j] \in Nat
      /\ \A j, l \in 1..(n + 1) : j < l => a[j] < a[l]
  BY <1>5, RisingOrder
<1>7. ASSUME NEW j \in 1..Len(a) PROVE a[j] \in Nat /\ a[j] >= 1 /\ a[j] <= L + 1
  <2>1. j \in 1..(n + 1) /\ 1 \in 1..(n + 1) /\ n + 1 \in 1..(n + 1) /\ a[j] \in Nat
    BY <1>1, <1>2, <1>6
  <2>2. a[j] >= 1
    <3>1. CASE j = 1
      BY <1>2, <3>1
    <3>2. CASE j > 1
      BY <1>2, <1>6, <2>1, <3>2
    <3> QED BY <2>1, <3>1, <3>2
  <2>3. a[j] <= L + 1
    <3>1. CASE j = n + 1
      BY <1>1, <1>2, <3>1
    <3>2. CASE j < n + 1
      BY <1>1, <1>2, <1>6, <2>1, <3>2
    <3> QED BY <1>1, <2>1, <3>1, <3>2
  <2> QED BY <2>1, <2>2, <2>3
<1>8. Retells(t, s, a)
  BY <1>3 DEF Retells, Stays, Goes, n
<1> QED BY <1>2, <1>5, <1>7, <1>8 DEF Threads, Ends, n, L

\* A place belongs to an occurrence of a value.
Over(s, v, x, p) == x >= 1 /\ OccursAt(s, v, x) /\ x <= p /\ p < x + Len(v)
PlacesOf(s, v) == {p \in Nat : \E x \in Nat : Over(s, v, x, p)}

\* Occurrences of two values lie apart, or one lies in the other.
Apart(s, v, w) ==
  \A x, y \in Nat :
    x >= 1 /\ OccursAt(s, v, x) /\ y >= 1 /\ OccursAt(s, w, y) =>
      \/ x + Len(v) <= y \/ y + Len(w) <= x
      \/ (x <= y /\ y + Len(w) <= x + Len(v)) \/ (y <= x /\ x + Len(v) <= y + Len(w))

\* An occurrence outside of C is still in the masked text.
LEMMA StillThere ==
  ASSUME NEW S, Mask \notin S, NEW t, IsSeq(t), NEW s \in Seq(S), NEW C, NEW a, Traces(t, s, C, a),
         NEW v \in Seq(S), v # <<>>, NEW x \in Nat, x >= 1, OccursAt(s, v, x),
         \A p \in Nat : Over(s, v, x, p) => p \notin C
  PROVE  \E l \in 1..Len(t) :
           OccursAt(t, v, l) /\ \A m \in 0..Len(v) : l + m \in 1..Len(a) /\ a[l + m] = x + m
<1> DEFINE n == Len(t)
           L == Len(s)
           d == Len(v)
<1>1. n \in Nat /\ L \in Nat /\ d \in Nat /\ d >= 1
  BY EmptySeq DEF IsSeq
<1>2. Rising(a, n) /\ Threads(t, s, a)
  BY TracesRise DEF IsSeq
<1>3. a \in Seq(Nat) /\ Len(a) = n + 1 /\ a[1] = 1 /\ a[n + 1] = L + 1
  BY DEF Traces
<1>4. \A j \in 1..n : Stays(t, s, C, a, j) \/ Goes(t, C, a, j)
  BY DEF Traces
<1>5. x + d <= L + 1 /\ \A m \in 1..d : s[x + m - 1] = v[m]
  BY OccursIs
<1>6. \A j \in 1..(n + 1) : a[j] \in Nat
  BY <1>2, RisingOrder
<1> HIDE DEF n, L
<1>7. PICK l \in 1..n : a[l] <= x /\ x < a[l + 1]
  <2>1. a[1] <= x /\ x < a[n + 1]
    BY <1>1, <1>3, <1>5
  <2> QED BY <1>2, <2>1, InStretch
<1>8. \A m \in Nat : m < d => x + m \notin C
  BY DEF Over
<1> HIDE DEF d
<1>9. a[l] = x
  <2>1. x \notin C
    <3>1. x + 0 = x /\ 0 < d
      BY <1>1
    <3> QED BY <1>8, <3>1
  <2>2. Stays(t, s, C, a, l)
    BY <1>4, <1>7, <2>1 DEF Goes
  <2>3. a[l] \in Nat
    BY <1>1, <1>6
  <2> QED BY <1>7, <2>2, <2>3 DEF Stays
<1>10. ASSUME NEW m \in Nat, m < d, l + m \in 1..(n + 1), a[l + m] = x + m
       PROVE  l + m \in 1..n /\ a[l + m + 1] = x + m + 1 /\ t[l + m] = s[x + m]
  <2>1. x + m < L + 1
    BY <1>1, <1>5, <1>10 DEF d
  <2>2. l + m # n + 1
    <3>1. SUFFICES ASSUME l + m = n + 1 PROVE FALSE
      OBVIOUS
    <3>2. a[l + m] = a[n + 1]
      BY <3>1, Zenon
    <3>3. x + m = L + 1
      BY <1>3, <1>10, <3>2, Zenon
    <3> QED BY <1>1, <2>1, <3>3
  <2>3. l + m \in 1..n
    BY <1>1, <1>10, <2>2
  <2>4. x + m \notin C /\ x + m \in Nat
    BY <1>8, <1>10
  <2>5. Stays(t, s, C, a, l + m) \/ Goes(t, C, a, l + m)
    BY <1>4, <2>3
  <2>6. ~ Goes(t, C, a, l + m)
    <3> DEFINE p == x + m
               q == l + m
    <3> HIDE DEF p, q
    <3>1. p \in Nat /\ p \notin C /\ a[q] = p
      BY <1>10, <2>4 DEF p, q
    <3>2. ~ Goes(t, C, a, q)
      BY <3>1 DEF Goes
    <3> QED BY <3>2 DEF q
  <2>7. Stays(t, s, C, a, l + m)
    BY <2>5, <2>6
  <2> QED BY <1>10, <2>3, <2>7, Zenon DEF Stays
<1> DEFINE Good == {m \in Nat : m <= d => l + m \in 1..(n + 1) /\ a[l + m] = x + m}
<1>11. 0 \in Good
  BY <1>1, <1>9
<1>12. ASSUME NEW m \in Nat, m \in Good PROVE m + 1 \in Good
  <2>1. SUFFICES ASSUME m + 1 <= d PROVE l + (m + 1) \in 1..(n + 1) /\ a[l + (m + 1)] = x + (m + 1)
    OBVIOUS
  <2>2. m < d /\ l + m \in 1..(n + 1) /\ a[l + m] = x + m
    BY <1>1, <1>12, <2>1 DEF d
  <2>3. l + m \in 1..n /\ a[l + m + 1] = x + m + 1
    BY <1>10, <2>2
  <2>4. l + m + 1 = l + (m + 1) /\ x + m + 1 = x + (m + 1)
    OBVIOUS
  <2>5. l + m + 1 \in 1..(n + 1)
    BY <1>1, <2>3
  <2> QED BY <2>3, <2>4, <2>5
<1> HIDE DEF Good
<1>13. Nat \subseteq Good
  BY <1>11, <1>12, AllNumbers
<1>14. ASSUME NEW m \in 0..d PROVE l + m \in 1..(n + 1) /\ a[l + m] = x + m
  BY <1>1, <1>13 DEF Good
<1>15. ASSUME NEW m \in 1..d PROVE t[l + m - 1] = v[m]
  <2> DEFINE k == m - 1
  <2>1. k \in Nat /\ k < d /\ k \in 0..d /\ l + m - 1 = l + k /\ x + m - 1 = x + k
    BY <1>1
  <2> HIDE DEF k
  <2>2. l + k \in 1..(n + 1) /\ a[l + k] = x + k
    BY <1>14, <2>1
  <2>3. t[l + k] = s[x + k]
    BY <1>10, <2>1, <2>2
  <2>4. s[x + m - 1] = v[m]
    BY <1>5 DEF d
  <2> QED BY <2>1, <2>3, <2>4
<1>16. l + d <= n + 1
  <2>1. d \in 0..d
    BY <1>1
  <2>2. l + d \in 1..(n + 1)
    BY <1>14, <2>1
  <2> QED BY <1>1, <2>2
<1>17. OccursAt(t, v, l)
  <2>1. PICK T : t \in Seq(T)
    BY DEF IsSeq
  <2>2. l \in Nat /\ l >= 1
    BY <1>1
  <2> QED BY <1>15, <1>16, <2>1, <2>2, OccursIs DEF n, d
<1> QED BY <1>3, <1>7, <1>14, <1>17 DEF n, d

\* An occurrence is hidden by masking, when no other one reaches into it.
LEMMA OccursHidden ==
  ASSUME NEW T, NEW t \in Seq(T), NEW v, Len(v) \in Nat, Len(v) >= 1, NEW U, NEW out \in Seq(U), NEW b,
         Shaped(t, v, out, b, Len(t)),
         NEW l \in Nat, l >= 1, OccursAt(t, v, l),
         \A y \in Nat : y >= 1 /\ y < l /\ OccursAt(t, v, y) => y + Len(v) <= l
  PROVE  \E j \in 1..Len(out) : b[j] = l /\ Hidden(t, v, out, b, j)
<1> DEFINE n == Len(out)
           d == Len(v)
<1>1. /\ Rising(b, n) /\ b[1] = 1 /\ b[n + 1] = Len(t) + 1
      /\ \A j \in 1..n : Copied(t, v, out, b, j) \/ Hidden(t, v, out, b, j)
  BY ShapedEnds DEF Shaped
<1>2. l + d <= Len(t) + 1 /\ n \in Nat /\ Len(t) \in Nat
  BY DEF OccursAt
<1> HIDE DEF n, d
<1>3. b[1] <= l /\ l < b[n + 1]
  BY <1>1, <1>2 DEF d
<1>4. PICK j \in 1..n : b[j] <= l /\ l < b[j + 1]
  BY <1>1, <1>3, InStretch
<1>5. b[j] \in Nat /\ b[j] >= 1
  <2>1. j \in 1..(n + 1)
    BY <1>2
  <2>2. 1 \in 1..(n + 1) /\ b[j] \in Nat /\ (1 < j => b[1] < b[j])
    BY <1>1, <1>2, <2>1, RisingOrder
  <2> QED BY <1>1, <2>1, <2>2
<1>6. CASE Copied(t, v, out, b, j)
  <2>1. b[j] = l
    BY <1>4, <1>5, <1>6 DEF Copied
  <2> QED BY <1>6, <2>1 DEF Copied
<1>7. CASE Hidden(t, v, out, b, j)
  <2>1. OccursAt(t, v, b[j]) /\ l < b[j] + d
    BY <1>4, <1>7 DEF Hidden, d
  <2>2. b[j] = l
    <3>1. ~ (b[j] < l)
      BY <1>5, <2>1 DEF d
    <3> QED BY <1>4, <1>5, <3>1
  <2> QED BY <1>7, <2>2 DEF n
<1> QED BY <1>1, <1>6, <1>7

\* An occurrence is in C as a whole or not at all.
Uncut(s, v, C) ==
  \A x \in Nat : x >= 1 /\ OccursAt(s, v, x) =>
    \/ \A p \in Nat : Over(s, v, x, p) => p \in C
    \/ \A p \in Nat : Over(s, v, x, p) => p \notin C

\* Masking one more value traces back to the text as well.
LEMMA TracesOn ==
  ASSUME NEW S, Mask \notin S, NEW t, MaskedText(S, t), NEW s \in Seq(S), NEW C, NEW a,
         Traces(t, s, C, a), NEW v \in Seq(S), v # <<>>, Uncut(s, v, C), Apart(s, v, v)
  PROVE  \E c : Traces(Masked(t, v), s, C \cup PlacesOf(s, v), c)
<1> DEFINE T == S \cup {Mask}
           out == Masked(t, v)
           n == Len(out)
           d == Len(v)
           E == C \cup PlacesOf(s, v)
<1>1. t \in Seq(T) /\ v \in Seq(T) /\ T \cup {Mask} = T /\ IsSeq(t) /\ IsSeq(s)
  BY DEF MaskedText, IsSeq
<1>2. d \in Nat /\ d >= 1
  BY EmptySeq
<1>3. out \in Seq(T) /\ \E b : Shaped(t, v, out, b, Len(t))
  <2>1. out \in Seq(T \cup {Mask}) /\ \E b : Shaped(t, v, out, b, Len(t))
    <3> HIDE DEF T
    <3> QED BY <1>1, MaskedShape
  <2> QED BY <1>1, <2>1
<1>4. PICK b : Shaped(t, v, out, b, Len(t))
  BY <1>3
<1> HIDE DEF T, out
<1>5. /\ Ends(t, b) /\ b[1] = 1 /\ b[n + 1] = Len(t) + 1 /\ b \in Seq(Nat) /\ Len(b) = n + 1
      /\ Rising(b, n) /\ n \in Nat
  BY <1>1, <1>2, <1>3, <1>4, ShapedEnds
<1>6. \A j \in 1..n : Copied(t, v, out, b, j) \/ Hidden(t, v, out, b, j)
  BY <1>4 DEF Shaped
<1>7. Rising(a, Len(t)) /\ Threads(t, s, a)
  BY <1>1, TracesRise
<1>8. /\ a \in Seq(Nat) /\ Len(a) = Len(t) + 1 /\ a[1] = 1 /\ a[Len(t) + 1] = Len(s) + 1
      /\ \A j \in 1..Len(t) : Stays(t, s, C, a, j) \/ Goes(t, C, a, j)
  BY DEF Traces
\* Occurrences of the value in the masked text do not overlap.
<1>9. ASSUME NEW y \in Nat, y >= 1, OccursAt(t, v, y)
      PROVE  /\ OccursAt(s, v, a[y]) /\ a[y] \in Nat /\ a[y] >= 1 /\ y \in 1..Len(t)
             /\ \A m \in Nat : m <= d => a[y + m] = a[y] + m
  <2>1. OccursAt(s, v, a[y]) /\ \A m \in 0..d : y + m \in 1..Len(a) /\ a[y + m] = a[y] + m
    BY <1>7, <1>9, OccursThere
  <2>2. y + d \in 1..Len(a) /\ y + 0 \in 1..Len(a) /\ y + 0 = y
    BY <1>2, <2>1
  <2>3. y \in 1..Len(a) /\ y \in 1..Len(t)
    BY <1>1, <1>2, <1>8, <1>9, <2>2
  <2>4. a[y] \in Nat /\ a[y] >= 1
    BY <1>7, <2>3 DEF Threads, Ends
  <2> QED BY <1>2, <2>1, <2>3, <2>4
<1>10. ASSUME NEW y \in Nat, y >= 1, OccursAt(t, v, y), NEW z \in Nat, y < z, OccursAt(t, v, z)
       PROVE  y + d <= z
  <2>1. SUFFICES ASSUME z < y + d PROVE FALSE
    BY <1>2
  <2> DEFINE m == z - y
             x == a[y]
  <2>2. m \in Nat /\ m < d /\ m > 0 /\ y + m = z
    BY <1>2, <1>10, <2>1
  <2>3. OccursAt(s, v, x) /\ x \in Nat /\ x >= 1 /\ a[y + m] = x + m
    BY <1>9, <1>10, <2>2
  <2>4. OccursAt(s, v, a[z]) /\ a[z] \in Nat /\ a[z] >= 1
    BY <1>9, <1>10
  <2> HIDE DEF m, x
  <2>5. a[z] = x + m
    BY <2>2, <2>3
  <2>6. OccursAt(s, v, x + m) /\ x + m \in Nat /\ x + m >= 1
    BY <2>4, <2>5
  <2>7. \/ x + d <= x + m \/ x + m + d <= x
        \/ (x <= x + m /\ x + m + d <= x + d) \/ (x + m <= x /\ x + d <= x + m + d)
    BY <2>3, <2>6 DEF Apart
  <2> HIDE DEF d
  <2> QED BY <1>2, <2>2, <2>3, <2>7
<1> DEFINE c == [j \in 1..(n + 1) |-> a[b[j]]]
<1>11. ASSUME NEW j \in 1..(n + 1) PROVE b[j] \in 1..(Len(t) + 1) /\ a[b[j]] \in Nat
  <2>1. b[j] \in Nat /\ b[j] >= 1 /\ b[j] <= Len(t) + 1
    BY <1>5 DEF Ends
  <2>2. b[j] \in 1..(Len(t) + 1)
    BY <1>1, <2>1
  <2> QED BY <1>8, <2>2
<1>12. c \in Seq(Nat) /\ Len(c) = n + 1 /\ \A j \in 1..(n + 1) : c[j] = a[b[j]]
  BY <1>5, <1>11
<1>13. ASSUME NEW j \in 1..n
       PROVE  /\ j \in 1..(n + 1) /\ j + 1 \in 1..(n + 1) /\ c[j] = a[b[j]] /\ c[j + 1] = a[b[j + 1]]
              /\ b[j] \in Nat /\ b[j] >= 1 /\ b[j + 1] \in Nat
  <2>1. j \in 1..(n + 1) /\ j + 1 \in 1..(n + 1)
    BY <1>5
  <2> QED BY <1>5, <1>12, <2>1 DEF Ends
<1> HIDE DEF c, n
<1>14. ASSUME NEW j \in 1..n, Hidden(t, v, out, b, j) PROVE Goes(out, E, c, j)
  <2> DEFINE y == b[j]
             x == a[y]
  <2>1. OccursAt(t, v, y) /\ b[j + 1] = y + d /\ out[j] = Mask
    BY <1>14 DEF Hidden
  <2>2. y \in Nat /\ y >= 1 /\ c[j] = x
    BY <1>13
  <2> HIDE DEF y
  <2>3. OccursAt(s, v, x) /\ x \in Nat /\ x >= 1 /\ a[y + d] = x + d
    BY <1>2, <1>9, <2>1, <2>2
  <2>4. c[j + 1] = x + d
    BY <1>13, <2>1, <2>3
  <2> HIDE DEF x, d
  <2>5. x < x + d
    BY <1>2, <2>3
  <2>6. \A p \in Nat : x <= p /\ p < x + d => p \in E
    BY <2>3 DEF PlacesOf, Over, d
  <2> HIDE DEF E
  <2> QED BY <2>1, <2>2, <2>4, <2>5, <2>6 DEF Goes
<1>15. ASSUME NEW j \in 1..n, Copied(t, v, out, b, j)
       PROVE  Stays(out, s, E, c, j) \/ Goes(out, E, c, j)
  <2> DEFINE y == b[j]
             p == a[y]
  <2>1. b[j + 1] = y + 1 /\ out[j] = t[y] /\ ~ OccursAt(t, v, y)
    BY <1>15 DEF Copied
  <2>2. y \in Nat /\ y >= 1 /\ y \in 1..Len(t) /\ p \in Nat
    <3>1. y \in Nat /\ y >= 1 /\ b[j + 1] \in Nat
      BY <1>13
    <3>2. b[j + 1] <= Len(t) + 1
      BY <1>5, <1>13 DEF Ends
    <3>3. y \in 1..Len(t)
      BY <1>1, <2>1, <3>1, <3>2
    <3>4. p \in Nat
      BY <1>11, <1>13
    <3> QED BY <3>1, <3>3, <3>4
  <2>3. c[j] = p /\ c[j + 1] = a[y + 1]
    BY <1>13, <2>1
  <2> HIDE DEF y, p
  <2>4. CASE Goes(t, C, a, y)
    <3>1. \A q \in Nat : a[y] <= q /\ q < a[y + 1] => q \in E
      BY <2>4 DEF Goes
    <3>2. c[j] < c[j + 1] /\ out[j] = Mask
      BY <2>1, <2>3, <2>4 DEF Goes, p
    <3> HIDE DEF E
    <3> QED BY <2>3, <3>1, <3>2 DEF Goes, p
  <2>5. CASE Stays(t, s, C, a, y)
    <3>1. a[y + 1] = p + 1 /\ t[y] = s[p] /\ p \notin C
      BY <2>5 DEF Stays, p
    <3>2. ASSUME NEW x \in Nat, Over(s, v, x, p) PROVE FALSE
      <4>1. x >= 1 /\ OccursAt(s, v, x) /\ x <= p /\ p < x + d
        BY <3>2 DEF Over
      <4>2. \A q \in Nat : Over(s, v, x, q) => q \notin C
        BY <2>2, <3>1, <3>2, <4>1 DEF Uncut
      <4>3. PICK l \in 1..Len(t) :
              OccursAt(t, v, l) /\ \A m \in 0..Len(v) : l + m \in 1..Len(a) /\ a[l + m] = x + m
        BY <1>1, <4>1, <4>2, StillThere
      <4> DEFINE m == p - x
      <4>4. m \in Nat /\ m < d /\ x + m = p /\ m \in 0..Len(v)
        BY <1>2, <2>2, <4>1
      <4> HIDE DEF m
      <4>5. l + m \in 1..Len(a) /\ a[l + m] = p
        BY <4>3, <4>4
      <4>6. l + m = y
        <5>1. l + m \in 1..(Len(t) + 1) /\ y \in 1..(Len(t) + 1)
          BY <1>8, <2>2, <4>5
        <5>2. l + m < y => a[l + m] < a[y]
          BY <1>7, <5>1, RisingOrder
        <5>3. y < l + m => a[y] < a[l + m]
          BY <1>7, <5>1, RisingOrder
        <5> QED BY <2>2, <4>5, <5>1, <5>2, <5>3 DEF p
      <4>7. l \in Nat /\ l >= 1
        OBVIOUS
      <4>8. PICK k \in 1..n : b[k] = l /\ Hidden(t, v, out, b, k)
        <5>1. \A z \in Nat : z >= 1 /\ z < l /\ OccursAt(t, v, z) => z + Len(v) <= l
          BY <1>10, <4>3, <4>7
        <5> QED BY <1>1, <1>2, <1>3, <1>4, <4>3, <4>7, <5>1, OccursHidden DEF n
      <4>9. b[k] <= y /\ y < b[k + 1]
        <5>1. b[k + 1] = l + d
          BY <4>8 DEF Hidden
        <5> HIDE DEF d
        <5> QED BY <1>2, <4>4, <4>6, <4>7, <4>8, <5>1
      <4>10. k = j
        <5>1. j \in 1..(n + 1) /\ k \in 1..(n + 1) /\ k + 1 \in 1..(n + 1)
          BY <1>13
        <5>2. /\ j < k => b[j] < b[k]
              /\ k + 1 < j => b[k + 1] < b[j]
              /\ b[j] \in Nat /\ b[k] \in Nat /\ b[k + 1] \in Nat
          BY <1>5, <5>1, RisingOrder
        <5>3. ~ (j < k)
          BY <4>9, <5>2 DEF y
        <5>4. ~ (k < j)
          <6>1. k < j => k + 1 = j \/ k + 1 < j
            OBVIOUS
          <6> QED BY <4>9, <5>2, <6>1 DEF y
        <5> QED BY <5>3, <5>4
      <4> QED BY <2>1, <4>8, <4>10 DEF Hidden, y
    <3>3. p \notin E
      BY <3>1, <3>2 DEF PlacesOf
    <3> HIDE DEF E
    <3> QED BY <2>1, <2>3, <3>1, <3>3 DEF Stays
  <2> QED BY <1>8, <2>2, <2>4, <2>5
<1>16. c[1] = 1 /\ c[n + 1] = Len(s) + 1
  <2>1. 1 \in 1..(n + 1) /\ n + 1 \in 1..(n + 1)
    BY <1>5
  <2>2. c[1] = a[b[1]] /\ c[n + 1] = a[b[n + 1]]
    BY <1>12, <2>1
  <2> QED BY <1>5, <1>8, <2>2
<1> HIDE DEF E
<1>17. Traces(out, s, E, c)
  <2>1. \A j \in 1..n : Stays(out, s, E, c, j) \/ Goes(out, E, c, j)
    BY <1>6, <1>14, <1>15
  <2> QED BY <1>12, <1>16, <2>1 DEF Traces, n
<1> QED BY <1>17, Zenon DEF out, E

-----------------------------------------------------------------------------
(* Masking all values *)

Values(S) == Seq(S) \ {<<>>}

CoveredBy(s, q) == {p \in Nat : \E j \in 1..Len(q) : p \in PlacesOf(s, q[j])}

\* The longest first, with occurrences that lie apart or in each other.
Proper(s, q) ==
  /\ \A i, j \in 1..Len(q) : i < j => Len(q[i]) >= Len(q[j])
  /\ \A i, j \in 1..Len(q) : Apart(s, q[i], q[j])

Traceable(t, s, C) == \E a : Traces(t, s, C, a)

HidesAll(S, s, q, t) ==
  /\ MaskedText(S, t)
  /\ \A j \in 1..Len(q) : NoneOf(t, q[j])
  /\ Proper(s, q) => Traceable(t, s, CoveredBy(s, q))

LEMMA TraceStarts ==
  ASSUME NEW S, Mask \notin S, NEW s \in Seq(S)
  PROVE  HidesAll(S, s, <<>>, s)
<1> DEFINE a == [j \in 1..(Len(s) + 1) |-> j]
           C == CoveredBy(s, <<>>)
<1>1. C = {}
  BY DEF CoveredBy
<1>2. a \in Seq(Nat) /\ Len(a) = Len(s) + 1 /\ \A j \in 1..(Len(s) + 1) : a[j] = j
  <2>1. Len(s) + 1 \in Nat
    OBVIOUS
  <2>2. \A j \in 1..(Len(s) + 1) : j \in Nat
    OBVIOUS
  <2> QED BY <2>1, <2>2
<1>3. 1 \in 1..(Len(s) + 1) /\ Len(s) + 1 \in 1..(Len(s) + 1)
  OBVIOUS
<1> HIDE DEF a, C
<1>4. a[1] = 1 /\ a[Len(s) + 1] = Len(s) + 1
  BY <1>2, <1>3
<1>5. ASSUME NEW j \in 1..Len(s) PROVE Stays(s, s, C, a, j)
  <2>1. j \in 1..(Len(s) + 1) /\ j + 1 \in 1..(Len(s) + 1)
    OBVIOUS
  <2>2. a[j] = j /\ a[j + 1] = j + 1
    BY <1>2, <2>1
  <2> QED BY <1>1, <2>2 DEF Stays
<1>6. Traces(s, s, C, a)
  BY <1>2, <1>4, <1>5 DEF Traces
<1>7. Traceable(s, s, C)
  BY <1>6, Zenon DEF Traceable
<1>8. s \in Seq(S \cup {Mask}) /\ Len(<<>>) = 0
  OBVIOUS
<1> QED BY <1>7, <1>8 DEF HidesAll, MaskedText, C

\* The places of longer values cut no occurrence of a shorter one.
LEMMA LongerFirst ==
  ASSUME NEW S, NEW s \in Seq(S), NEW q \in Seq(Values(S)), NEW v \in Values(S),
         \A j \in 1..Len(q) : Len(q[j]) >= Len(v) /\ Apart(s, q[j], v)
  PROVE  Uncut(s, v, CoveredBy(s, q))
<1> DEFINE C == CoveredBy(s, q)
<1>1. SUFFICES ASSUME NEW x \in Nat, x >= 1, OccursAt(s, v, x),
                      NEW p \in Nat, Over(s, v, x, p), p \in C,
                      NEW r \in Nat, Over(s, v, x, r)
               PROVE  r \in C
  BY DEF Uncut
<1>2. PICK j \in 1..Len(q) : p \in PlacesOf(s, q[j])
  BY <1>1 DEF CoveredBy
<1> DEFINE w == q[j]
           m == Len(w)
           d == Len(v)
<1>3. PICK y \in Nat : Over(s, w, y, p)
  BY <1>2 DEF PlacesOf
<1>4. m \in Nat /\ d \in Nat /\ m >= d /\ Apart(s, w, v)
  BY DEF Values
<1>5. x <= p /\ p < x + d /\ x <= r /\ r < x + d
  BY <1>1 DEF Over
<1>6. y >= 1 /\ OccursAt(s, w, y) /\ y <= p /\ p < y + m
  BY <1>3 DEF Over
<1>7. \/ y + m <= x \/ x + d <= y
      \/ (y <= x /\ x + d <= y + m) \/ (x <= y /\ y + m <= x + d)
  BY <1>1, <1>4, <1>6 DEF Apart
<1> HIDE DEF w, m, d, C
<1>8. y <= r /\ r < y + m
  BY <1>1, <1>3, <1>4, <1>5, <1>6, <1>7
<1>9. Over(s, w, y, r)
  BY <1>6, <1>8 DEF Over, m
<1>10. r \in PlacesOf(s, w)
  BY <1>1, <1>3, <1>9 DEF PlacesOf
<1> QED BY <1>1, <1>2, <1>10 DEF C, CoveredBy, w

LEMMA TraceGoesOn ==
  ASSUME NEW S, Mask \notin S, NEW s \in Seq(S), NEW q \in Seq(Values(S)), NEW v \in Values(S),
         NEW t, HidesAll(S, s, q, t)
  PROVE  HidesAll(S, s, Append(q, v), Masked(t, v))
<1> DEFINE out == Masked(t, v)
           n == Len(q)
           r == Append(q, v)
<1>1. n \in Nat /\ Len(r) = n + 1 /\ r[n + 1] = v /\ \A j \in 1..n : r[j] = q[j] /\ q[j] \in Seq(S)
  BY DEF Values
<1>2. v \in Seq(S) /\ v # <<>> /\ MaskedText(S, t)
  BY DEF Values, HidesAll
<1> HIDE DEF out, r, n
<1>3. MaskedText(S, out) /\ NoneOf(out, v) /\ \A w \in Seq(S) : NoneOf(t, w) => NoneOf(out, w)
  BY <1>2, MaskRemoves DEF out
<1>4. \A j \in 1..(n + 1) : j \in 1..n \/ j = n + 1
  BY <1>1
<1>5. ASSUME NEW j \in 1..(n + 1) PROVE NoneOf(out, r[j])
  <2>1. \A i \in 1..n : NoneOf(t, q[i])
    BY DEF HidesAll, n
  <2> QED BY <1>1, <1>3, <1>4, <2>1
<1>6. ASSUME Proper(s, r) PROVE Traceable(out, s, CoveredBy(s, r))
  <2>1. \A j \in 1..n : j \in 1..(n + 1) /\ j < n + 1 /\ n + 1 \in 1..(n + 1)
    BY <1>1
  <2>2. /\ \A i, j \in 1..(n + 1) : i < j => Len(r[i]) >= Len(r[j])
        /\ \A i, j \in 1..(n + 1) : Apart(s, r[i], r[j])
    BY <1>1, <1>6 DEF Proper
  <2>3. \A j \in 1..n : Len(q[j]) >= Len(v) /\ Apart(s, q[j], v)
    BY <1>1, <2>1, <2>2
  <2>4. Proper(s, q)
    BY <1>1, <2>1, <2>2 DEF Proper, n
  <2>5. Apart(s, v, v)
    <3>1. n + 1 \in 1..(n + 1)
      BY <1>1
    <3> QED BY <1>1, <2>2, <3>1
  <2> DEFINE C == CoveredBy(s, q)
  <2>6. Uncut(s, v, C)
    BY <2>3, LongerFirst DEF n
  <2>7. PICK a : Traces(t, s, C, a)
    BY <2>4 DEF HidesAll, Traceable
  <2> HIDE DEF C
  <2>8. Traceable(out, s, C \cup PlacesOf(s, v))
    BY <1>2, <2>5, <2>6, <2>7, TracesOn DEF Traceable, out
  <2>9. CoveredBy(s, r) = C \cup PlacesOf(s, v)
    <3>1. ASSUME NEW p \in Nat
          PROVE  (\E j \in 1..(n + 1) : p \in PlacesOf(s, r[j]))
                   <=> ((\E j \in 1..n : p \in PlacesOf(s, q[j])) \/ p \in PlacesOf(s, v))
      BY <1>1, <1>4, <2>1
    <3>2. PlacesOf(s, v) \subseteq Nat
      BY DEF PlacesOf
    <3> QED BY <1>1, <3>1, <3>2 DEF CoveredBy, C, n
  <2> QED BY <2>8, <2>9
<1>7. HidesAll(S, s, r, out)
  BY <1>1, <1>3, <1>5, <1>6 DEF HidesAll
<1> QED BY <1>7 DEF r, out

LEMMA AllHidden ==
  ASSUME NEW S, Mask \notin S, NEW s \in Seq(S), NEW q \in Seq(Values(S))
  PROVE  HidesAll(S, s, q, Folded("masks", s, q))
<1> DEFINE Good == {u \in Seq(Values(S)) : HidesAll(S, s, u, Folded("masks", s, u))}
<1>1. <<>> \in Good
  <2>1. Folded("masks", s, <<>>) = s
    BY FoldEmpty
  <2>2. HidesAll(S, s, <<>>, s)
    BY TraceStarts
  <2> QED BY <2>1, <2>2
<1>2. ASSUME NEW u \in Seq(Values(S)), NEW v \in Values(S), u \in Good PROVE Append(u, v) \in Good
  <2> DEFINE t == Folded("masks", s, u)
  <2>1. HidesAll(S, s, u, t)
    BY <1>2
  <2>2. Folded("masks", s, Append(u, v)) = Masked(t, v)
    <3>1. Folded("masks", s, Append(u, v)) = FoldStep("masks", t, v)
      BY FoldAppend
    <3> HIDE DEF t
    <3> QED BY <3>1 DEF FoldStep
  <2> HIDE DEF t
  <2>3. HidesAll(S, s, Append(u, v), Masked(t, v))
    BY <2>1, TraceGoesOn
  <2> QED BY <2>2, <2>3
<1> HIDE DEF Good
<1>3. Seq(Values(S)) \subseteq Good
  BY <1>1, <1>2, AllSequences
<1> QED BY <1>3 DEF Good

\* mask_with is such a fold.
IsMasksFold(f, s, q) ==
  f = [X \in SUBSET (DOMAIN q) |-> IF X = {} THEN s ELSE Masked(f[X \ {Max(X)}], q[Max(X)])]

LEMMA MasksFold ==
  ASSUME NEW S, NEW s, NEW q \in Seq(S)
  PROVE  FoldLeft(Masked, s, q) = Folded("masks", s, q)
<1> DEFINE f == CHOOSE g : IsMasksFold(g, s, q)
<1>1. FoldLeft(Masked, s, q) = f[DOMAIN q]
  BY DEF FoldLeft, MapThenFoldSet, IsMasksFold
<1>2. \A g : IsMasksFold(g, s, q) <=> IsFold(g, "masks", s, q, Len(q))
  <2>1. \A st, x : FoldStep("masks", st, x) = Masked(st, x)
    BY DEF FoldStep
  <2>2. DOMAIN q = 1..Len(q)
    OBVIOUS
  <2> QED BY <2>1, <2>2 DEF IsMasksFold, IsFold
<1>3. Len(q) \in Nat
  OBVIOUS
<1>4. IsMasksFold(f, s, q)
  BY <1>2, <1>3, FoldExists
<1> HIDE DEF f
<1> QED BY <1>1, <1>2, <1>4, FoldChosen

-----------------------------------------------------------------------------
(* Occurrences of secrets *)

LEMMA NothingFound ==
  ASSUME NEW S, NEW s \in Seq(S), NEW v \in Seq(S), NoneOf(s, v)
  PROVE  Find(s, v) = 0
<1> DEFINE hits == {i \in 1..(Len(s) - Len(v) + 1) : SubSeq(s, i, i + Len(v) - 1) = v}
<1>1. ASSUME NEW i \in 1..(Len(s) - Len(v) + 1) PROVE SubSeq(s, i, i + Len(v) - 1) # v
  <2>1. i \in Nat /\ i >= 1 /\ i + Len(v) <= Len(s) + 1
    OBVIOUS
  <2> QED BY <2>1 DEF NoneOf, OccursAt
<1>2. hits = {}
  BY <1>1
<1> QED BY <1>2, Zenon DEF Find

LEMMA OccurrenceFrom ==
  ASSUME NEW S, NEW s \in Seq(S), NEW V, NEW v \in V, v \in Values(S),
         NEW x \in Nat, x >= 1, OccursAt(s, v, x)
  PROVE  <<x, x + Len(v) - 1>> \in Occurrences(s, V)
<1> DEFINE d == Len(v)
           z == x + d - 1
<1>1. d \in Nat /\ d >= 1
  BY EmptySeq DEF Values
<1>2. x + d <= Len(s) + 1 /\ SubSeq(s, x, z) = v
  BY DEF OccursAt
<1> HIDE DEF d
<1>3. x \in 1..Len(s) /\ z \in 1..Len(s) /\ x <= z
  BY <1>1, <1>2
<1> HIDE DEF z
<1>4. <<x, z>> \in Occurrences(s, V)
  BY <1>2, <1>3 DEF Occurrences
<1> QED BY <1>4 DEF z, d

LEMMA OccurrenceTo ==
  ASSUME NEW S, NEW s \in Seq(S), NEW V, NEW o \in Occurrences(s, V)
  PROVE  \E v \in V : /\ o[1] \in Nat /\ o[1] >= 1 /\ o[2] \in Nat
                      /\ OccursAt(s, v, o[1]) /\ o[2] = o[1] + Len(v) - 1
<1> DEFINE x == o[1]
           z == o[2]
           v == SubSeq(s, x, z)
<1>1. x \in 1..Len(s) /\ z \in 1..Len(s) /\ x <= z /\ v \in V
  BY DEF Occurrences
<1> HIDE DEF x, z
<1>2. Len(v) = z - x + 1
  BY <1>1, SubSeqProperties
<1>3. x + Len(v) - 1 = z
  <2> HIDE DEF v
  <2> QED BY <1>1, <1>2
<1>4. OccursAt(s, v, x)
  <2>1. x + Len(v) <= Len(s) + 1
    <3> HIDE DEF v
    <3> QED BY <1>1, <1>2
  <2>2. SubSeq(s, x, x + Len(v) - 1) = v
    BY <1>3, Zenon
  <2> QED BY <2>1, <2>2 DEF OccursAt
<1> HIDE DEF v
<1>5. x \in Nat /\ x >= 1 /\ z \in Nat
  BY <1>1
<1> QED BY <1>1, <1>3, <1>4, <1>5 DEF x, z

LEMMA NestedApart ==
  ASSUME NEW S, NEW s \in Seq(S), NEW V \in SUBSET Values(S), Nested(s, V), NEW v \in V, NEW w \in V
  PROVE  Apart(s, v, w)
<1>1. SUFFICES ASSUME NEW x \in Nat, NEW y \in Nat,
                      x >= 1, OccursAt(s, v, x), y >= 1, OccursAt(s, w, y)
               PROVE  \/ x + Len(v) <= y \/ y + Len(w) <= x
                      \/ (x <= y /\ y + Len(w) <= x + Len(v)) \/ (y <= x /\ x + Len(v) <= y + Len(w))
  BY DEF Apart
<1> DEFINE o == <<x, x + Len(v) - 1>>
           p == <<y, y + Len(w) - 1>>
<1>2. o \in Occurrences(s, V) /\ p \in Occurrences(s, V)
  BY <1>1, OccurrenceFrom
<1> HIDE DEF o, p
<1>3. \/ o[2] < p[1] \/ p[2] < o[1]
      \/ (o[1] <= p[1] /\ p[2] <= o[2]) \/ (p[1] <= o[1] /\ o[2] <= p[2])
  BY <1>2 DEF Nested
<1>4. o[1] = x /\ o[2] = x + Len(v) - 1 /\ p[1] = y /\ p[2] = y + Len(w) - 1
  BY DEF o, p
<1>5. Len(v) \in Nat /\ Len(w) \in Nat
  BY DEF Values
<1> QED BY <1>3, <1>4, <1>5

LEMMA CoveredSame ==
  ASSUME NEW S, NEW s \in Seq(S), NEW q \in Seq(Values(S)), NEW V, Range(q) = V
  PROVE  CoveredBy(s, q) = Covered(s, V)
<1>1. V = {q[j] : j \in 1..Len(q)} /\ V \subseteq Values(S)
  BY DEF Range
<1>2. ASSUME NEW p \in CoveredBy(s, q) PROVE p \in Covered(s, V)
  <2>1. p \in Nat /\ \E j \in 1..Len(q) : p \in PlacesOf(s, q[j])
    BY DEF CoveredBy
  <2>2. PICK v \in V : p \in PlacesOf(s, v)
    BY <1>1, <2>1
  <2>3. PICK x \in Nat : Over(s, v, x, p)
    BY <2>2 DEF PlacesOf
  <2> DEFINE o == <<x, x + Len(v) - 1>>
  <2>4. o \in Occurrences(s, V)
    BY <1>1, <2>3, OccurrenceFrom DEF Over
  <2>5. p \in o[1]..o[2]
    <3>1. Len(v) \in Nat
      BY <1>1 DEF Values
    <3>2. x <= p /\ p < x + Len(v)
      BY <2>3 DEF Over
    <3>3. o[1] = x /\ o[2] = x + Len(v) - 1
      OBVIOUS
    <3> HIDE DEF o
    <3> QED BY <2>1, <3>1, <3>2, <3>3
  <2> HIDE DEF o
  <2> QED BY <2>4, <2>5 DEF Covered
<1>3. ASSUME NEW p \in Covered(s, V) PROVE p \in CoveredBy(s, q)
  <2>1. PICK o \in Occurrences(s, V) : p \in o[1]..o[2]
    BY DEF Covered
  <2>2. PICK v \in V : /\ o[1] \in Nat /\ o[1] >= 1 /\ o[2] \in Nat
                       /\ OccursAt(s, v, o[1]) /\ o[2] = o[1] + Len(v) - 1
    BY OccurrenceTo
  <2> DEFINE x == o[1]
             z == o[2]
  <2>3. x \in Nat /\ x >= 1 /\ OccursAt(s, v, x) /\ z = x + Len(v) - 1 /\ p \in x..z /\ z \in Nat
    BY <2>1, <2>2
  <2> HIDE DEF x, z
  <2>4. Len(v) \in Nat
    BY <1>1 DEF Values
  <2>5. p \in Nat /\ x <= p /\ p < x + Len(v)
    BY <2>3, <2>4
  <2>6. Over(s, v, x, p)
    BY <2>3, <2>5 DEF Over
  <2>7. p \in PlacesOf(s, v)
    BY <2>3, <2>5, <2>6 DEF PlacesOf
  <2>8. PICK j \in 1..Len(q) : v = q[j]
    BY <1>1
  <2> QED BY <2>5, <2>7, <2>8 DEF CoveredBy
<1> QED BY <1>2, <1>3

-----------------------------------------------------------------------------
(* What is left of a masked text *)

IsUnmasking(f, t) ==
  f = [X \in SUBSET (DOMAIN t) |-> IF X = {} THEN <<>> ELSE Kept(f[X \ {Max(X)}], t[Max(X)])]

RunsKept(f, t) ==
  /\ f[{}] = <<>>
  /\ \A k \in Nat : k + 1 <= Len(t) => f[1..(k + 1)] = Kept(f[1..k], t[k + 1])

LEMMA UnmaskedRun ==
  ASSUME NEW S, NEW t \in Seq(S)
  PROVE  \E f : RunsKept(f, t) /\ Unmasked(t) = f[1..Len(t)]
<1> DEFINE f == CHOOSE g : IsUnmasking(g, t)
           n == Len(t)
<1>1. n \in Nat /\ DOMAIN t = 1..n
  OBVIOUS
<1>2. Unmasked(t) = f[DOMAIN t]
  BY DEF Unmasked, FoldLeft, MapThenFoldSet, IsUnmasking, Kept
<1>3. \A g : IsUnmasking(g, t) <=> IsFold(g, "unmask", <<>>, t, n)
  <2>1. \A st, x : FoldStep("unmask", st, x) = Kept(st, x)
    BY DEF FoldStep
  <2> QED BY <1>1, <2>1 DEF IsUnmasking, IsFold
<1>4. IsFold(f, "unmask", <<>>, t, n)
  BY <1>1, <1>3, FoldExists
<1> HIDE DEF f
<1>5. f[{}] = <<>>
  BY <1>1, <1>4, FoldStarts
<1>6. ASSUME NEW k \in Nat, k + 1 <= n PROVE f[1..(k + 1)] = Kept(f[1..k], t[k + 1])
  <2>1. f[1..(k + 1)] = FoldStep("unmask", f[1..k], t[k + 1])
    <3> DEFINE empty == <<>>
               kind == "unmask"
    <3>1. k \in Nat /\ n \in Nat /\ k + 1 <= n /\ IsFold(f, kind, empty, t, n)
      BY <1>1, <1>4, <1>6
    <3> HIDE DEF empty, kind, n
    <3>2. f[1..(k + 1)] = FoldStep(kind, f[1..k], t[k + 1])
      BY ONLY <3>1, FoldSteps
    <3> QED BY <3>2 DEF kind
  <2> QED BY <2>1 DEF FoldStep
<1> QED BY <1>1, <1>2, <1>5, <1>6 DEF RunsKept

Stayed(s, C, out, i) == IF i \in C THEN out ELSE Append(out, s[i])

IsLeaving(f, s, C) ==
  f = [X \in SUBSET (DOMAIN Indices(s)) |->
         IF X = {} THEN <<>> ELSE Stayed(s, C, f[X \ {Max(X)}], Indices(s)[Max(X)])]

RunsLeft(f, s, C) ==
  /\ f[{}] = <<>>
  /\ \A k \in Nat : k + 1 <= Len(s) => f[1..(k + 1)] = Stayed(s, C, f[1..k], k + 1)

LEMMA WithoutRun ==
  ASSUME NEW S, NEW s \in Seq(S), NEW C
  PROVE  \E f : RunsLeft(f, s, C) /\ Without(s, C) = f[1..Len(s)]
<1> DEFINE f == CHOOSE g : IsLeaving(g, s, C)
           t == Marked(s, C)
           n == Len(s)
<1>1. n \in Nat /\ DOMAIN Indices(s) = 1..n
  BY DEF Indices
<1>2. Without(s, C) = f[DOMAIN Indices(s)]
  BY DEF Without, FoldLeft, MapThenFoldSet, IsLeaving, Stayed
<1>3. \A g : IsLeaving(g, s, C) <=> IsFold(g, "without", <<>>, t, n)
  <2>1. ASSUME NEW st, NEW i \in 1..n
        PROVE  FoldStep("without", st, t[i]) = Stayed(s, C, st, Indices(s)[i])
    <3>1. t[i] = <<s, C, i>> /\ Indices(s)[i] = i
      BY MarkedIs
    <3>2. FoldStep("without", st, t[i]) = Left(st, t[i])
      BY DEF FoldStep
    <3>3. Left(st, <<s, C, i>>) = Stayed(s, C, st, i)
      BY DEF Left, Stayed
    <3> HIDE DEF t
    <3> QED BY <3>1, <3>2, <3>3
  <2>2. ASSUME NEW g PROVE IsLeaving(g, s, C) <=> IsFold(g, "without", <<>>, t, n)
    <3> DEFINE a(X) == IF X = {} THEN <<>> ELSE Stayed(s, C, g[X \ {Max(X)}], Indices(s)[Max(X)])
               b(X) == IF X = {} THEN <<>> ELSE FoldStep("without", g[X \ {Max(X)}], t[Max(X)])
    <3>1. ASSUME NEW X \in SUBSET (1..n) PROVE a(X) = b(X)
      <4>1. CASE X = {}
        BY <4>1
      <4>2. CASE X # {}
        <5>1. Max(X) \in 1..n
          BY <1>1, <4>2, MaxIn
        <5> QED BY <2>1, <4>2, <5>1
      <4> QED BY <4>1, <4>2
    <3>2. IsLeaving(g, s, C) <=> g = [X \in SUBSET (1..n) |-> a(X)]
      BY <1>1 DEF IsLeaving
    <3>3. IsFold(g, "without", <<>>, t, n) <=> g = [X \in SUBSET (1..n) |-> b(X)]
      BY DEF IsFold
    <3> HIDE DEF a, b
    <3> QED BY <3>1, <3>2, <3>3
  <2> QED BY <2>2
<1>4. \E g : IsFold(g, "without", <<>>, t, n)
  BY <1>1, FoldExists
<1>5. IsFold(f, "without", <<>>, t, n)
  BY <1>3, <1>4
<1> HIDE DEF f
<1>6. f[{}] = <<>>
  BY <1>1, <1>5, FoldStarts
<1>7. ASSUME NEW k \in Nat, k + 1 <= n PROVE f[1..(k + 1)] = Stayed(s, C, f[1..k], k + 1)
  <2>1. f[1..(k + 1)] = FoldStep("without", f[1..k], t[k + 1])
    <3> DEFINE empty == <<>>
               kind == "without"
    <3>1. k \in Nat /\ n \in Nat /\ k + 1 <= n /\ IsFold(f, kind, empty, t, n)
      BY <1>1, <1>5, <1>7
    <3> HIDE DEF empty, kind, t, n
    <3>2. f[1..(k + 1)] = FoldStep(kind, f[1..k], t[k + 1])
      BY ONLY <3>1, FoldSteps
    <3> QED BY <3>2 DEF kind
  <2>2. t[k + 1] = <<s, C, k + 1>>
    BY <1>7, MarkedIs
  <2>3. FoldStep("without", f[1..k], <<s, C, k + 1>>) = Stayed(s, C, f[1..k], k + 1)
    BY DEF FoldStep, Left, Stayed
  <2> HIDE DEF t
  <2> QED BY <2>1, <2>2, <2>3
<1> QED BY <1>1, <1>2, <1>6, <1>7 DEF RunsLeft

\* A stretch of places of C leaves nothing.
LEMMA StretchGone ==
  ASSUME NEW s, Len(s) \in Nat, NEW C, NEW g, RunsLeft(g, s, C), NEW k \in Nat, NEW m \in Nat,
         k <= m, m <= Len(s), \A p \in Nat : k < p /\ p <= m => p \in C
  PROVE  g[1..m] = g[1..k]
<1> DEFINE Good == {i \in Nat : k <= i /\ i <= m => g[1..i] = g[1..k]}
<1>1. 0 \in Good
  <2>1. k <= 0 => k = 0
    OBVIOUS
  <2> QED BY <2>1, Zenon
<1>2. ASSUME NEW i \in Nat, i \in Good PROVE i + 1 \in Good
  <2>1. SUFFICES ASSUME k <= i + 1, i + 1 <= m PROVE g[1..(i + 1)] = g[1..k]
    OBVIOUS
  <2>2. CASE i + 1 = k
    BY <2>2, Zenon
  <2>3. CASE k <= i
    <3>1. g[1..i] = g[1..k] /\ i + 1 \in C /\ i + 1 <= Len(s)
      BY <1>2, <2>1, <2>3
    <3>2. g[1..(i + 1)] = Stayed(s, C, g[1..i], i + 1)
      BY <3>1 DEF RunsLeft
    <3> QED BY <3>1, <3>2 DEF Stayed
  <2>4. i + 1 = k \/ k <= i
    BY <2>1
  <2> QED BY <2>2, <2>3, <2>4
<1> HIDE DEF Good
<1>3. m \in Good
  BY <1>1, <1>2, AllNumbers
<1> QED BY <1>3 DEF Good

LEMMA TraceLeaves ==
  ASSUME NEW S, Mask \notin S, NEW t, MaskedText(S, t), NEW s \in Seq(S), NEW C, NEW a, Traces(t, s, C, a)
  PROVE  Unmasked(t) = Without(s, C)
<1>1. t \in Seq(S \cup {Mask}) /\ IsSeq(t) /\ IsSeq(s)
  BY DEF MaskedText, IsSeq
<1>2. PICK f : RunsKept(f, t) /\ Unmasked(t) = f[1..Len(t)]
  BY <1>1, UnmaskedRun
<1>3. PICK g : RunsLeft(g, s, C) /\ Without(s, C) = g[1..Len(s)]
  BY WithoutRun
<1> DEFINE n == Len(t)
           L == Len(s)
<1>4. n \in Nat /\ L \in Nat
  BY <1>1
<1>5. Rising(a, n) /\ Threads(t, s, a)
  BY <1>1, TracesRise
<1>6. /\ Len(a) = n + 1 /\ a[1] = 1 /\ a[n + 1] = L + 1
      /\ \A j \in 1..n : Stays(t, s, C, a, j) \/ Goes(t, C, a, j)
  BY DEF Traces
<1>7. \A j \in 1..(n + 1) : a[j] \in Nat /\ a[j] >= 1 /\ a[j] <= L + 1
  BY <1>5, <1>6 DEF Threads, Ends
<1> DEFINE Good == {j \in Nat : j <= n => f[1..j] = g[1..(a[j + 1] - 1)]}
<1>8. 0 \in Good
  <2>1. a[0 + 1] - 1 = 0 /\ 1..0 = {}
    BY <1>6
  <2> QED BY <1>2, <1>3, <2>1 DEF RunsKept, RunsLeft
<1>9. ASSUME NEW j \in Nat, j \in Good PROVE j + 1 \in Good
  <2>1. SUFFICES ASSUME j + 1 <= n PROVE f[1..(j + 1)] = g[1..(a[j + 1 + 1] - 1)]
    OBVIOUS
  <2> DEFINE i == j + 1
             x == a[i]
             z == a[i + 1]
  <2>2. f[1..j] = g[1..(x - 1)]
    BY <1>4, <1>9, <2>1
  <2>3. i \in 1..n /\ i \in 1..(n + 1) /\ i + 1 \in 1..(n + 1)
    BY <1>4, <2>1
  <2>4. f[1..i] = Kept(f[1..j], t[i])
    BY <1>2, <2>1 DEF RunsKept
  <2>5. /\ x \in Nat /\ x >= 1 /\ x <= L + 1
        /\ z \in Nat /\ z >= 1 /\ z <= L + 1
    BY <1>7, <2>3
  <2>6. Stays(t, s, C, a, i) \/ Goes(t, C, a, i)
    BY <1>6, <2>3
  <2> HIDE DEF i
  <2>7. CASE Goes(t, C, a, i)
    <3>1. x < z /\ t[i] = Mask /\ \A p \in Nat : x <= p /\ p < z => p \in C
      BY <2>7 DEF Goes
    <3> HIDE DEF x, z
    <3> DEFINE k == x - 1
               m == z - 1
    <3>2. k \in Nat /\ m \in Nat /\ k <= m /\ m <= L /\ \A p \in Nat : k < p /\ p <= m => p \in C
      BY <1>4, <2>5, <3>1
    <3> HIDE DEF k, m
    <3>3. g[1..m] = g[1..k]
      BY <1>3, <1>4, <3>2, StretchGone
    <3>4. f[1..i] = f[1..j]
      BY <2>4, <3>1 DEF Kept
    <3> QED BY <2>2, <3>3, <3>4 DEF k, m, x, z, i
  <2>8. CASE Stays(t, s, C, a, i)
    <3>1. z = x + 1 /\ t[i] = s[x] /\ x \notin C
      BY <2>8 DEF Stays
    <3> HIDE DEF x, z
    <3> DEFINE k == x - 1
    <3>2. k \in Nat /\ k + 1 = x /\ z - 1 = x /\ x \in 1..L
      BY <1>4, <2>5, <3>1
    <3> HIDE DEF k
    <3>3. g[1..x] = Stayed(s, C, g[1..k], x)
      <4>1. k + 1 <= Len(s)
        BY <3>2
      <4>2. g[1..(k + 1)] = Stayed(s, C, g[1..k], k + 1)
        BY <1>3, <3>2, <4>1 DEF RunsLeft
      <4> QED BY <3>2, <4>2, Zenon
    <3>4. t[i] # Mask
      <4>1. s[x] \in S
        BY <3>2
      <4> QED BY <3>1, <4>1
    <3>5. f[1..i] = Append(f[1..j], t[i]) /\ g[1..x] = Append(g[1..k], s[x])
      BY <2>4, <3>1, <3>3, <3>4 DEF Kept, Stayed
    <3>6. f[1..i] = g[1..(z - 1)]
      BY <2>2, <3>1, <3>2, <3>5 DEF k
    <3> QED BY <3>6 DEF x, z, i
  <2> QED BY <2>6, <2>7, <2>8
<1> HIDE DEF Good
<1>10. n \in Good
  BY <1>4, <1>8, <1>9, AllNumbers
<1>11. f[1..n] = g[1..(a[n + 1] - 1)]
  BY <1>4, <1>10 DEF Good
<1>12. a[n + 1] - 1 = L
  BY <1>4, <1>6
<1> QED BY <1>2, <1>3, <1>11, <1>12

-----------------------------------------------------------------------------
(* The values in order *)

Sorted(q, V) == Range(q) = V /\ \A i, j \in DOMAIN q : i < j => Len(q[i]) >= Len(q[j])

LEMMA Shortest ==
  ASSUME NEW S, NEW V \in SUBSET Seq(S), V # {}
  PROVE  \E w \in V : \A v \in V : Len(w) <= Len(v)
<1> DEFINE lengths == {Len(v) : v \in V}
<1>1. lengths \subseteq Nat /\ lengths # {}
  <2>1. \A v \in V : Len(v) \in Nat /\ Len(v) \in lengths
    OBVIOUS
  <2>2. \A n \in lengths : \E v \in V : n = Len(v)
    OBVIOUS
  <2> HIDE DEF lengths
  <2> QED BY <2>1, <2>2
<1> HIDE DEF lengths
<1>2. PICK n \in lengths : \A m \in lengths : ~ (<<m, n>> \in Below)
  BY <1>1, BelowFounded, WFMin
<1>3. ASSUME NEW m \in lengths PROVE n <= m
  <2>1. m \in Nat /\ n \in Nat /\ ~ (m < n)
    BY <1>1, <1>2 DEF Below
  <2> QED BY <2>1
<1>4. PICK w \in V : Len(w) = n
  BY DEF lengths
<1>5. \A v \in V : Len(v) \in lengths
  BY DEF lengths
<1> QED BY <1>3, <1>4, <1>5

LEMMA SortedThere ==
  ASSUME NEW S, NEW V \in SUBSET Seq(S), IsFiniteSet(V)
  PROVE  \E q \in [1..Cardinality(V) -> V] : Sorted(q, V)
<1> DEFINE Good == {n \in Nat : \A W \in SUBSET Seq(S) :
                      IsFiniteSet(W) /\ Cardinality(W) = n => \E q \in [1..n -> W] : Sorted(q, W)}
<1>1. 0 \in Good
  <2>1. SUFFICES ASSUME NEW W \in SUBSET Seq(S), IsFiniteSet(W), Cardinality(W) = 0
                 PROVE  \E q \in [1..0 -> W] : Sorted(q, W)
    OBVIOUS
  <2>2. W = {} /\ 1..0 = {}
    BY <2>1, FS_EmptySet
  <2> DEFINE q == [i \in 1..0 |-> i]
  <2>3. q \in [1..0 -> W] /\ DOMAIN q = {}
    BY <2>2
  <2>4. Range(q) = {}
    BY <2>3 DEF Range
  <2> HIDE DEF q
  <2>5. Sorted(q, W)
    BY <2>2, <2>3, <2>4 DEF Sorted
  <2> QED BY <2>3, <2>5
<1>2. ASSUME NEW n \in Nat, n \in Good PROVE n + 1 \in Good
  <2>1. SUFFICES ASSUME NEW W \in SUBSET Seq(S), IsFiniteSet(W), Cardinality(W) = n + 1
                 PROVE  \E q \in [1..(n + 1) -> W] : Sorted(q, W)
    OBVIOUS
  <2>2. W # {}
    BY <2>1, FS_EmptySet
  <2>3. PICK w \in W : \A v \in W : Len(w) <= Len(v)
    BY <2>2, Shortest
  <2> DEFINE U == W \ {w}
  <2>4. IsFiniteSet(U) /\ Cardinality(U) = n /\ U \in SUBSET Seq(S)
    <3>1. IsFiniteSet(U) /\ Cardinality(U) = Cardinality(W) - 1
      BY <2>1, FS_RemoveElement
    <3>2. Cardinality(U) = n
      <4> HIDE DEF U
      <4> QED BY <2>1, <3>1
    <3> QED BY <3>1, <3>2
  <2> HIDE DEF U
  <2>5. PICK q \in [1..n -> U] : Sorted(q, U)
    BY <1>2, <2>4
  <2> DEFINE r == [i \in 1..(n + 1) |-> IF i = n + 1 THEN w ELSE q[i]]
  <2>6. /\ DOMAIN r = 1..(n + 1) /\ r[n + 1] = w
        /\ \A i \in 1..n : i \in 1..(n + 1) /\ r[i] = q[i] /\ q[i] \in U /\ i < n + 1
        /\ \A i \in 1..(n + 1) : i \in 1..n \/ i = n + 1
    BY <2>5
  <2>7. U \subseteq W /\ W = U \cup {w} /\ U = {q[i] : i \in 1..n}
    BY <2>5 DEF U, Sorted, Range
  <2>8. r \in [1..(n + 1) -> W]
    BY <2>6, <2>7
  <2> HIDE DEF r
  <2>9. Range(r) = W
    <3>1. \A v \in W : \E i \in 1..(n + 1) : v = r[i]
      <4>1. ASSUME NEW v \in U PROVE \E i \in 1..(n + 1) : v = r[i]
        BY <2>6, <2>7
      <4>2. n + 1 \in 1..(n + 1)
        OBVIOUS
      <4> QED BY <2>6, <2>7, <4>1, <4>2
    <3> QED BY <2>6, <2>8, <3>1 DEF Range
  <2>10. ASSUME NEW i \in 1..(n + 1), NEW j \in 1..(n + 1), i < j PROVE Len(r[i]) >= Len(r[j])
    <3>1. i \in 1..n /\ r[i] = q[i] /\ q[i] \in W
      BY <2>6, <2>7, <2>10
    <3>2. CASE j = n + 1
      <4>1. Len(w) <= Len(q[i]) /\ r[j] = w
        BY <2>3, <2>6, <3>1, <3>2
      <4>2. Len(w) \in Nat /\ Len(q[i]) \in Nat
        BY <3>1
      <4> QED BY <3>1, <4>1, <4>2
    <3>3. CASE j \in 1..n
      <4>1. r[j] = q[j] /\ Len(q[i]) >= Len(q[j])
        BY <2>5, <2>6, <2>10, <3>1, <3>3 DEF Sorted
      <4> QED BY <3>1, <4>1
    <3> QED BY <2>6, <3>2, <3>3
  <2>11. Sorted(r, W)
    BY <2>6, <2>9, <2>10 DEF Sorted
  <2> QED BY <2>8, <2>11
<1> HIDE DEF Good
<1>3. Nat \subseteq Good
  BY <1>1, <1>2, AllNumbers
<1>4. Cardinality(V) \in Nat
  BY FS_CardinalityType
<1> QED BY <1>3, <1>4 DEF Good

-----------------------------------------------------------------------------
(* The theorem *)

MaskInv ==
  /\ detail \in Seq(Letters)
  /\ tables \in SUBSET [value : Texts, secret : BOOLEAN]
  /\ IsFiniteSet(tables)

LEMMA MaskInvHolds == MaskSpec => []MaskInv
<1>1. MaskInit => MaskInv
  BY FS_EmptySet DEF MaskInit, MaskInv
<1>2. MaskInv /\ [MaskNext]_maskVars => MaskInv'
  <2> SUFFICES ASSUME MaskInv, [MaskNext]_maskVars PROVE MaskInv'
    OBVIOUS
  <2>1. CASE WriteDetail
    <3>1. PICK c \in Letters : detail' = Append(detail, c)
      BY <2>1 DEF WriteDetail
    <3> QED BY <2>1, <3>1 DEF MaskInv, WriteDetail
  <2>2. CASE AddSecret
    <3>1. PICK value \in Texts, secret \in BOOLEAN :
            tables' = tables \cup {[value |-> value, secret |-> secret]}
      BY <2>2 DEF AddSecret
    <3> DEFINE r == [value |-> value, secret |-> secret]
    <3>2. r \in [value : Texts, secret : BOOLEAN]
      OBVIOUS
    <3> HIDE DEF r
    <3>3. IsFiniteSet(tables \cup {r})
      BY FS_AddElement DEF MaskInv
    <3>4. tables' = tables \cup {r}
      BY <3>1 DEF r
    <3> QED BY <2>2, <3>2, <3>3, <3>4 DEF MaskInv, AddSecret
  <2>3. CASE UNCHANGED maskVars
    BY <2>3 DEF MaskInv, maskVars
  <2> QED BY <2>1, <2>2, <2>3 DEF MaskNext
<1> QED BY <1>1, <1>2, PTL DEF MaskSpec

LEMMA SecretsFinite ==
  ASSUME MaskInv
  PROVE  Secrets(tables) \subseteq Values(Letters) /\ IsFiniteSet(Secrets(tables))
<1> DEFINE all == {r.value : r \in tables}
           f == [r \in tables |-> r.value]
<1>1. f \in Surjection(tables, all)
  <2>1. f \in [tables -> all]
    OBVIOUS
  <2>2. \A v \in all : \E r \in tables : f[r] = v
    OBVIOUS
  <2> QED BY <2>1, <2>2 DEF Surjection
<1> HIDE DEF f
<1>2. IsFiniteSet(all)
  BY <1>1, FS_Surjection DEF MaskInv
<1>3. Secrets(tables) \in SUBSET all
  BY DEF Secrets
<1>4. IsFiniteSet(Secrets(tables))
  <2> HIDE DEF all
  <2> QED BY <1>2, <1>3, FS_Subset
<1>5. \A r \in tables : r.value \in Seq(Letters)
  BY MaskingAssumption DEF MaskInv
<1>6. Secrets(tables) \subseteq Values(Letters)
  BY <1>5 DEF Secrets, Values
<1> QED BY <1>4, <1>6

LEMMA SecretsMaskedNow ==
  ASSUME MaskInv
  PROVE  SecretsAreMasked
<1> DEFINE V == Secrets(tables)
           q == SecretValues(tables)
           shown == MaskWith(detail, tables)
<1>1. V \subseteq Values(Letters) /\ IsFiniteSet(V) /\ Mask \notin Letters /\ detail \in Seq(Letters)
  BY SecretsFinite, MaskingAssumption DEF MaskInv
<1>2. V \in SUBSET Seq(Letters)
  BY <1>1 DEF Values
<1> DEFINE c == Cardinality(V)
<1>3. \E u \in [1..c -> V] : Sorted(u, V)
  <2> HIDE DEF V
  <2> QED BY <1>1, <1>2, SortedThere
<1>4. q = CHOOSE u \in [1..c -> V] : Sorted(u, V)
  BY DEF SecretValues, Sorted
<1>5. q \in [1..c -> V] /\ Sorted(q, V)
  <2> HIDE DEF q, V, c
  <2> QED BY <1>3, <1>4
<1>6. c \in Nat
  <2> HIDE DEF V
  <2> QED BY <1>1, FS_CardinalityType
<1>7. shown = FoldLeft(Masked, detail, q)
  BY DEF MaskWith
<1> HIDE DEF V, q, shown, c
<1>8. q \in Seq(Values(Letters)) /\ Len(q) = c /\ DOMAIN q = 1..c
  BY <1>1, <1>5, <1>6
<1>9. HidesAll(Letters, detail, q, shown)
  <2>1. shown = Folded("masks", detail, q)
    BY <1>7, <1>8, MasksFold
  <2> QED BY <1>1, <1>8, <2>1, AllHidden
<1>10. V = {q[j] : j \in 1..c}
  BY <1>5, <1>8 DEF Sorted, Range
<1>11. ASSUME NEW v \in V PROVE Find(shown, v) = 0
  <2>1. NoneOf(shown, v)
    BY <1>8, <1>9, <1>10 DEF HidesAll
  <2>2. shown \in Seq(Letters \cup {Mask}) /\ v \in Seq(Letters \cup {Mask})
    BY <1>1, <1>9 DEF HidesAll, MaskedText, Values
  <2> DEFINE S == Letters \cup {Mask}
  <2> HIDE DEF S
  <2>3. shown \in Seq(S) /\ v \in Seq(S)
    BY <2>2 DEF S
  <2> QED BY <2>1, <2>3, NothingFound
<1>12. ASSUME Nested(detail, V) PROVE Unmasked(shown) = Without(detail, Covered(detail, V))
  <2>1. \A v, w \in V : Apart(detail, v, w)
    BY <1>1, <1>12, NestedApart
  <2>2. \A j \in 1..c : q[j] \in V
    BY <1>10
  <2>3. Proper(detail, q)
    BY <1>5, <1>8, <2>1, <2>2 DEF Proper, Sorted
  <2> DEFINE C == CoveredBy(detail, q)
  <2>4. C = Covered(detail, V)
    BY <1>1, <1>5, <1>8, CoveredSame DEF Sorted
  <2>5. MaskedText(Letters, shown) /\ \E a : Traces(shown, detail, C, a)
    BY <1>9, <2>3 DEF HidesAll, Traceable
  <2> HIDE DEF C
  <2>6. Unmasked(shown) = Without(detail, C)
    BY <1>1, <2>5, TraceLeaves
  <2> QED BY <2>4, <2>6
<1> QED BY <1>11, <1>12 DEF SecretsAreMasked, V, shown

\* Whatever variables there are and whatever a report says: what is shown of it
\* holds no value of a secret variable, and where such values lie apart or in each
\* other only they are hidden (ui/response_pane.rs: secret_values, mask_with).
THEOREM SecretsStayHidden == MaskSpec => []SecretsAreMasked
BY MaskInvHolds, SecretsMaskedNow, PTL

-----------------------------------------------------------------------------
(* The layout of JSON keeps a text, but for white space outside of quotes *)

IsLaying(f, s) ==
  f = [X \in SUBSET (DOMAIN s) |-> IF X = {} THEN Started ELSE PrettyStep(f[X \ {Max(X)}], s[Max(X)])]

LEMMA LayFold ==
  ASSUME NEW S, NEW s \in Seq(S)
  PROVE  Pretty(s) = Folded("lay", Started, s).out
<1> DEFINE f == CHOOSE g : IsLaying(g, s)
<1>1. Pretty(s) = f[DOMAIN s].out
  BY DEF Pretty, FoldLeft, MapThenFoldSet, IsLaying
<1>2. \A g : IsLaying(g, s) <=> IsFold(g, "lay", Started, s, Len(s))
  <2>1. \A st, x : FoldStep("lay", st, x) = PrettyStep(st, x)
    BY DEF FoldStep
  <2>2. DOMAIN s = 1..Len(s)
    OBVIOUS
  <2> QED BY <2>1, <2>2 DEF IsLaying, IsFold
<1>3. Len(s) \in Nat
  OBVIOUS
<1>4. IsLaying(f, s)
  BY <1>2, <1>3, FoldExists
<1> HIDE DEF f
<1> QED BY <1>1, <1>2, <1>4, FoldChosen

IsSqueezing(f, s) ==
  f = [X \in SUBSET (DOMAIN s) |-> IF X = {} THEN Unquoted ELSE Squeeze(f[X \ {Max(X)}], s[Max(X)])]

LEMMA SqueezeFold ==
  ASSUME NEW S, NEW s \in Seq(S)
  PROVE  Squeezed(s) = Folded("squeeze", Unquoted, s).out
<1> DEFINE f == CHOOSE g : IsSqueezing(g, s)
<1>1. Squeezed(s) = f[DOMAIN s].out
  BY DEF Squeezed, FoldLeft, MapThenFoldSet, IsSqueezing
<1>2. \A g : IsSqueezing(g, s) <=> IsFold(g, "squeeze", Unquoted, s, Len(s))
  <2>1. \A st, x : FoldStep("squeeze", st, x) = Squeeze(st, x)
    BY DEF FoldStep
  <2>2. DOMAIN s = 1..Len(s)
    OBVIOUS
  <2> QED BY <2>1, <2>2 DEF IsSqueezing, IsFold
<1>3. Len(s) \in Nat
  OBVIOUS
<1>4. IsSqueezing(f, s)
  BY <1>2, <1>3, FoldExists
<1> HIDE DEF f
<1> QED BY <1>1, <1>2, <1>4, FoldChosen

\* What the two passes know after a part of a text.
SqueezeState(S) == [out : Seq(S), escaped : BOOLEAN, quoted : BOOLEAN]
LayState(S) == [out : Seq(S), depth : Nat, inText : BOOLEAN, escaped : BOOLEAN,
                pending : {"none"} \cup Closing]

\* White space outside of quotes is left out.
LEMMA WhiteSqueezed ==
  ASSUME NEW st, ~ st.quoted, NEW w \in Seq(White)
  PROVE  Folded("squeeze", st, w) = st
<1> DEFINE Good == {u \in Seq(White) : Folded("squeeze", st, u) = st}
<1>1. <<>> \in Good
  BY FoldEmpty
<1>2. ASSUME NEW u \in Seq(White), NEW c \in White, u \in Good PROVE Append(u, c) \in Good
  <2>1. Append(u, c) \in Seq(White) /\ Folded("squeeze", st, Append(u, c)) = FoldStep("squeeze", st, c)
    BY <1>2, FoldAppend
  <2>2. FoldStep("squeeze", st, c) = Squeeze(st, c)
    BY DEF FoldStep
  <2>3. Squeeze(st, c) = st
    BY DEF Squeeze
  <2> QED BY <2>1, <2>2, <2>3
<1> HIDE DEF Good
<1>3. w \in Good
  BY <1>1, <1>2, AllSequences
<1> QED BY <1>3 DEF Good

LEMMA IndentIsWhite ==
  ASSUME NEW d \in Nat
  PROVE  Indent(d) \in Seq(White)
<1> DEFINE n == 2 * (IF d < MaxIndent THEN d ELSE MaxIndent)
           w == [i \in 1..n |-> " "]
<1>1. n \in Nat
  BY BodiesAssumption
<1>2. Indent(d) = <<"nl">> \o w
  BY DEF Indent
<1> HIDE DEF n
<1>3. w \in Seq(White)
  BY <1>1 DEF White
<1>4. <<"nl">> \in Seq(White)
  BY DEF White
<1> QED BY <1>2, <1>3, <1>4, ConcatProperties

\* A character is laid out between white space that is outside of quotes.
LaidBetween(st, next, c, w, v) ==
  /\ w \in Seq(White) /\ v \in Seq(White)
  /\ next.out = ((st.out \o w) \o <<c>>) \o v
  /\ st.inText => w = <<>>
  /\ next.inText => v = <<>>
  /\ next.inText <=> IF c = QuoteMark /\ ~ st.escaped THEN ~ st.inText ELSE st.inText
  /\ next.escaped <=> st.inText /\ ~ st.escaped /\ c = Backslash

\* Outside of quotes nothing is escaped.
Calm(st) == st.inText \/ ~ st.escaped

\* The symbols that the layout looks for differ.
LEMMA SymbolsDiffer ==
  /\ QuoteMark \notin {"none", Backslash, Comma, ":"} /\ QuoteMark \notin DOMAIN Opened /\ QuoteMark \notin Closing
  /\ \A c \in DOMAIN Opened : c \notin Closing /\ c \notin {Comma, ":"}
  /\ \A c \in Closing : c \notin {Comma, ":"}
  /\ Comma # ":"
  /\ \A c \in DOMAIN Opened : Opened[c] \in Closing
BY Zenon DEF QuoteMark, Backslash, Comma, Opened, Closing

LEMMA InTextLays ==
  ASSUME NEW S, NEW st \in LayState(S), NEW c \in S, st.inText
  PROVE  LET next == InText(st, c)
         IN next \in LayState(S) /\ Calm(next) /\ LaidBetween(st, next, c, <<>>, <<>>)
<1> DEFINE next == InText(st, c)
           o == Append(st.out, c)
           e == ~ st.escaped /\ c = Backslash
           t == st.escaped \/ c # QuoteMark
<1>1. /\ st.out \in Seq(S) /\ o \in Seq(S) /\ <<>> \in Seq(White)
      /\ ((st.out \o <<>>) \o <<c>>) \o <<>> = o
  BY DEF LayState
<1>2. e \in BOOLEAN /\ t \in BOOLEAN
  OBVIOUS
<1>3. next = [st EXCEPT !.out = o, !.escaped = e, !.inText = t]
  BY Zenon DEF InText
<1>4. (e <=> ~ st.escaped /\ c = Backslash) /\ (t <=> st.escaped \/ c # QuoteMark)
  OBVIOUS
<1> HIDE DEF next, o, e, t
<1>5. next \in LayState(S) /\ next.out = o /\ next.escaped = e /\ next.inText = t
  BY <1>1, <1>2, <1>3 DEF LayState
<1>6. Calm(next)
  BY <1>4, <1>5, SymbolsDiffer DEF Calm
<1>7. LaidBetween(st, next, c, <<>>, <<>>)
  BY <1>1, <1>4, <1>5 DEF LaidBetween
<1> QED BY <1>5, <1>6, <1>7 DEF next

LEMMA Single ==
  ASSUME NEW S, NEW x \in S
  PROVE  <<x>> \in Seq(S)
OBVIOUS

LEMMA PairAdded ==
  ASSUME NEW S, NEW s \in Seq(S), NEW x \in S, NEW y \in S
  PROVE  s \o <<x, y>> = Append(s, x) \o <<y>> /\ s \o <<x, y>> \in Seq(S)
OBVIOUS

LEMMA OutsideLays ==
  ASSUME NEW S, White \cup {":"} \subseteq S,
         NEW st \in LayState(S), NEW c \in S, ~ st.inText, ~ st.escaped
  PROVE  LET next == Outside(st, c)
         IN next \in LayState(S) /\ Calm(next) /\ \E w, v : LaidBetween(st, next, c, w, v)
<1> DEFINE next == Outside(st, c)
           less == IF st.depth = 0 THEN 0 ELSE st.depth - 1
           o == st.out
           Looks(out) == next \in LayState(S) /\ next.out = out /\ ~ next.escaped /\ (next.inText <=> c = QuoteMark)
<1> SUFFICES next \in LayState(S) /\ Calm(next) /\ \E w, v : LaidBetween(st, next, c, w, v)
  OBVIOUS
<1>1. o \in Seq(S) /\ st.depth \in Nat /\ less \in Nat /\ st.pending \in {"none"} \cup Closing
  BY DEF LayState
<1>2. " " \in White
  BY DEF White
<1>3. <<>> \in Seq(White) /\ Indent(less) \in Seq(White) /\ Indent(st.depth) \in Seq(White)
  <2> HIDE DEF less
  <2> QED BY <1>1, IndentIsWhite
<1>4. \A u \in Seq(White) : u \in Seq(S)
  BY SeqMonotonic
<1>5. ASSUME NEW w \in Seq(White), NEW v \in Seq(White), Looks(((o \o w) \o <<c>>) \o v), c = QuoteMark => v = <<>>
      PROVE  next \in LayState(S) /\ Calm(next) /\ \E w2, v2 : LaidBetween(st, next, c, w2, v2)
  <2>1. LaidBetween(st, next, c, w, v)
    <3> HIDE DEF next
    <3> QED BY <1>5 DEF LaidBetween
  <2>2. Calm(next)
    BY <1>5 DEF Calm
  <2> HIDE DEF next
  <2> QED BY <1>5, <2>1, <2>2
<1> HIDE DEF less, o
<1>6. Append(o, c) \in Seq(S) /\ ((o \o <<>>) \o <<c>>) \o <<>> = Append(o, c)
  BY <1>1
<1>7. ASSUME NEW u \in Seq(White)
      PROVE  /\ o \o u \in Seq(S) /\ Append(o \o u, c) \in Seq(S) /\ ((o \o u) \o <<c>>) \o <<>> = Append(o \o u, c)
             /\ Append(o, c) \o u \in Seq(S) /\ ((o \o <<>>) \o <<c>>) \o u = Append(o, c) \o u
  <2>1. u \in Seq(S) /\ o \o u \in Seq(S) /\ Append(o, c) \o u \in Seq(S)
    BY <1>1, <1>4, <1>6, ConcatProperties
  <2>2. o \o <<>> = o /\ o \o <<c>> = Append(o, c)
    BY <1>1
  <2> DEFINE x == o \o u
  <2> HIDE DEF x
  <2>3. x \in Seq(S)
    BY <2>1 DEF x
  <2>4. Append(x, c) \in Seq(S) /\ (x \o <<c>>) \o <<>> = Append(x, c)
    BY <2>3
  <2> QED BY <2>1, <2>2, <2>4 DEF x
<1>8. o \o <<c, " ">> = Append(o, c) \o <<" ">> /\ o \o <<c, " ">> \in Seq(S)
  BY <1>1, <1>2, PairAdded
<1>9. CASE c = QuoteMark
  <2>1. Looks(Append(o, c))
    BY <1>1, <1>6, <1>9, SymbolsDiffer DEF Outside, LayState, o
  <2> HIDE DEF next
  <2> QED BY <1>3, <1>5, <1>6, <2>1
<1>10. CASE c \in DOMAIN Opened
  <2>1. Opened[c] \in {"none"} \cup Closing /\ c # QuoteMark
    BY <1>10, SymbolsDiffer
  <2>2. Looks(Append(o, c))
    BY <1>1, <1>6, <1>10, <2>1, SymbolsDiffer DEF Outside, LayState, o
  <2> HIDE DEF next
  <2> QED BY <1>3, <1>5, <1>6, <2>1, <2>2
<1>11. CASE c \in Closing
  <2>1. c # QuoteMark
    BY <1>11, SymbolsDiffer
  <2>2. Append(o \o Indent(less), c) \in Seq(S)
    BY <1>3, <1>7
  <2>3. Looks(Append(o \o Indent(less), c))
    BY <1>1, <1>11, <2>1, <2>2, SymbolsDiffer DEF Outside, LayState, o, less
  <2> HIDE DEF next
  <2> QED BY <1>3, <1>5, <1>7, <2>1, <2>3
<1>12. CASE c = Comma
  <2>1. c # QuoteMark
    BY <1>12, SymbolsDiffer
  <2>2. Append(o, c) \o Indent(st.depth) \in Seq(S)
    BY <1>3, <1>7
  <2>3. Looks(Append(o, c) \o Indent(st.depth))
    BY <1>1, <1>12, <2>1, <2>2, SymbolsDiffer DEF Outside, LayState, o
  <2> HIDE DEF next
  <2> QED BY <1>3, <1>5, <1>7, <2>1, <2>3
<1>13. CASE c = ":"
  <2>1. c # QuoteMark
    BY <1>13, SymbolsDiffer
  <2>2. Looks(o \o <<c, " ">>)
    BY <1>1, <1>8, <1>13, <2>1, SymbolsDiffer DEF Outside, LayState, o
  <2>3. <<" ">> \in Seq(White)
    BY <1>2, Single
  <2>4. o \o <<c, " ">> = ((o \o <<>>) \o <<c>>) \o <<" ">>
    BY <1>7, <1>8, <2>3
  <2> HIDE DEF next
  <2> QED BY <1>3, <1>5, <2>1, <2>2, <2>3, <2>4
<1>14. CASE c \notin {QuoteMark, Comma, ":"} \cup DOMAIN Opened \cup Closing
  <2>1. Looks(Append(o, c))
    BY <1>1, <1>6, <1>14 DEF Outside, LayState, o
  <2> HIDE DEF next
  <2> QED BY <1>3, <1>5, <1>6, <1>14, <2>1
<1> QED BY <1>9, <1>10, <1>11, <1>12, <1>13, <1>14

\* One step of the layout: white space outside of quotes goes, other characters
\* are laid out.
LeftOut(st, next, c) == ~ st.inText /\ c \in White /\ next = st
Laid(st, next, c) == (st.inText \/ c \notin White) /\ \E w, v : LaidBetween(st, next, c, w, v)

DeeperAt(st, d, o) == [st EXCEPT !.pending = "none", !.depth = d, !.out = o]

LEMMA DeeperState ==
  ASSUME NEW S, NEW st \in LayState(S), NEW d \in Nat, NEW o \in Seq(S)
  PROVE  /\ DeeperAt(st, d, o) \in LayState(S) /\ DeeperAt(st, d, o).out = o
         /\ DeeperAt(st, d, o).inText = st.inText /\ DeeperAt(st, d, o).escaped = st.escaped
<1>1. "none" \in {"none"} \cup Closing
  OBVIOUS
<1> QED BY <1>1 DEF LayState, DeeperAt

LEMMA MoreWhite ==
  ASSUME NEW S, White \subseteq S, NEW s \in Seq(S), NEW u \in Seq(White), NEW w \in Seq(White)
  PROVE  u \o w \in Seq(White) /\ (s \o u) \o w = s \o (u \o w)
<1>1. u \in Seq(S) /\ w \in Seq(S)
  BY SeqMonotonic
<1>2. u \o w \in Seq(White)
  BY ConcatProperties
<1> QED BY <1>1, <1>2, ConcatAssociative

LEMMA StepLays ==
  ASSUME NEW S, White \cup {":"} \subseteq S, NEW st \in LayState(S), Calm(st), NEW c \in S
  PROVE  LET next == PrettyStep(st, c)
         IN next \in LayState(S) /\ Calm(next) /\ (LeftOut(st, next, c) \/ Laid(st, next, c))
<1> DEFINE next == PrettyStep(st, c)
<1> SUFFICES next \in LayState(S) /\ Calm(next) /\ (LeftOut(st, next, c) \/ Laid(st, next, c))
  OBVIOUS
<1>1. CASE st.inText
  <2>1. next = InText(st, c)
    BY <1>1 DEF PrettyStep
  <2> HIDE DEF next
  <2>2. next \in LayState(S) /\ Calm(next) /\ LaidBetween(st, next, c, <<>>, <<>>)
    BY <1>1, <2>1, InTextLays
  <2> QED BY <1>1, <2>2 DEF Laid
<1>2. CASE ~ st.inText /\ c \in White
  <2>1. next = st
    BY <1>2 DEF PrettyStep
  <2> QED BY <1>2, <2>1 DEF LeftOut
<1>3. CASE ~ st.inText /\ c \notin White /\ st.pending = c
  <2>1. st.out \in Seq(S) /\ Append(st.out, c) \in Seq(S) /\ c # QuoteMark
        /\ <<>> \in Seq(White) /\ ((st.out \o <<>>) \o <<c>>) \o <<>> = Append(st.out, c)
    BY <1>3, SymbolsDiffer DEF LayState
  <2>2. next = [st EXCEPT !.pending = "none", !.out = Append(st.out, c)]
    BY <1>3 DEF PrettyStep, LayState
  <2> HIDE DEF next
  <2>3. next \in LayState(S) /\ next.out = Append(st.out, c) /\ next.inText = st.inText /\ next.escaped = st.escaped
    BY <2>1, <2>2 DEF LayState
  <2>4. LaidBetween(st, next, c, <<>>, <<>>) /\ Calm(next)
    BY <1>3, <2>1, <2>3 DEF LaidBetween, Calm
  <2> QED BY <1>3, <2>3, <2>4 DEF Laid
<1>4. CASE ~ st.inText /\ c \notin White /\ st.pending # c
  <2> DEFINE settled == [st EXCEPT !.pending = "none"]
             deeper == [settled EXCEPT !.depth = @ + 1, !.out = @ \o Indent(st.depth + 1)]
             from == IF st.pending = "none" THEN st ELSE deeper
             u == IF st.pending = "none" THEN <<>> ELSE Indent(st.depth + 1)
  <2>1. next = Outside(from, c)
    BY <1>4, Zenon DEF PrettyStep
  <2>2. u \in Seq(White) /\ u \in Seq(S) /\ st.out \in Seq(S) /\ st.out \o u \in Seq(S) /\ st.depth \in Nat
    <3>1. st.out \in Seq(S) /\ st.depth \in Nat /\ st.depth + 1 \in Nat
      BY DEF LayState
    <3>2. u \in Seq(White)
      BY <3>1, IndentIsWhite
    <3> HIDE DEF u
    <3>3. u \in Seq(S)
      BY <3>2, SeqMonotonic
    <3> QED BY <3>1, <3>2, <3>3, ConcatProperties
  <2>3. from \in LayState(S) /\ from.out = st.out \o u /\ from.inText = st.inText /\ from.escaped = st.escaped
    <3>1. CASE st.pending = "none"
      BY <2>2, <3>1
    <3>2. CASE st.pending # "none"
      <4>1. u = Indent(st.depth + 1)
        BY <3>2
      <4> HIDE DEF u
      <4>2. from = [st EXCEPT !.pending = "none", !.depth = st.depth + 1, !.out = st.out \o u]
        BY <3>2, <4>1 DEF LayState
      <4> HIDE DEF from
      <4> DEFINE d == st.depth + 1
                 out == st.out \o u
      <4>3. d \in Nat /\ out \in Seq(S) /\ from = DeeperAt(st, d, out)
        BY <2>2, <4>2 DEF DeeperAt
      <4> HIDE DEF d, out
      <4>4. from \in LayState(S) /\ from.out = out /\ from.inText = st.inText /\ from.escaped = st.escaped
        BY <4>3, DeeperState
      <4> QED BY <4>4 DEF out
    <3> QED BY <3>1, <3>2
  <2>4. ~ from.inText /\ ~ from.escaped
    BY <1>4, <2>3 DEF Calm
  <2> HIDE DEF next, from, u
  <2>5. next \in LayState(S) /\ Calm(next) /\ \E w, v : LaidBetween(from, next, c, w, v)
    BY <2>1, <2>3, <2>4, OutsideLays
  <2>6. PICK w, v : LaidBetween(from, next, c, w, v)
    BY <2>5
  <2>7. w \in Seq(White) /\ v \in Seq(White) /\ u \o w \in Seq(White)
        /\ (st.out \o u) \o w = st.out \o (u \o w)
    <3>1. w \in Seq(White) /\ v \in Seq(White)
      BY <2>6 DEF LaidBetween
    <3> DEFINE o == st.out
    <3>2. o \in Seq(S) /\ White \subseteq S
      BY <2>2
    <3> HIDE DEF o
    <3>3. u \o w \in Seq(White) /\ (o \o u) \o w = o \o (u \o w)
      BY <2>2, <3>1, <3>2, MoreWhite
    <3> QED BY <3>1, <3>3 DEF o
  <2>8. LaidBetween(st, next, c, u \o w, v)
    BY <1>4, <2>3, <2>6, <2>7 DEF LaidBetween
  <2> QED BY <1>4, <2>5, <2>8 DEF Laid
<1> QED BY <1>1, <1>2, <1>3, <1>4

\* Without the white space, what is laid out is what was read.
SameSqueezed(S, st, sq) ==
  /\ sq \in SqueezeState(S) /\ Folded("squeeze", Unquoted, st.out) = sq
  /\ sq.quoted <=> st.inText
  /\ sq.escaped <=> st.escaped

LEMMA StepSqueezed ==
  ASSUME NEW S, White \subseteq S, NEW st \in LayState(S), Calm(st), NEW c \in S, NEW sq, SameSqueezed(S, st, sq),
         NEW next \in LayState(S), LeftOut(st, next, c) \/ Laid(st, next, c)
  PROVE  SameSqueezed(S, next, Squeeze(sq, c))
<1>1. sq \in SqueezeState(S) /\ Folded("squeeze", Unquoted, st.out) = sq
      /\ (sq.quoted <=> st.inText) /\ (sq.escaped <=> st.escaped)
  BY DEF SameSqueezed
<1>2. CASE LeftOut(st, next, c)
  <2>1. Squeeze(sq, c) = sq
    BY <1>1, <1>2 DEF LeftOut, Squeeze
  <2> QED BY <1>2, <2>1 DEF LeftOut
<1>3. CASE Laid(st, next, c)
  <2>1. PICK w, v : LaidBetween(st, next, c, w, v)
    BY <1>3 DEF Laid
  <2>2. /\ w \in Seq(White) /\ v \in Seq(White) /\ next.out = ((st.out \o w) \o <<c>>) \o v
        /\ (st.inText => w = <<>>) /\ (next.inText => v = <<>>)
        /\ (next.inText <=> IF c = QuoteMark /\ ~ st.escaped THEN ~ st.inText ELSE st.inText)
        /\ (next.escaped <=> st.inText /\ ~ st.escaped /\ c = Backslash)
    BY <2>1 DEF LaidBetween
  <2> DEFINE o == Append(sq.out, c)
             e == sq.quoted /\ ~ sq.escaped /\ c = Backslash
             t == IF c = QuoteMark /\ ~ sq.escaped THEN ~ sq.quoted ELSE sq.quoted
             sq2 == [out |-> o, escaped |-> e, quoted |-> t]
  <2>3. Squeeze(sq, c) = sq2
    BY <1>1, <1>3, Zenon DEF Squeeze, Laid
  <2>4. o \in Seq(S) /\ e \in BOOLEAN /\ t \in BOOLEAN
    <3>1. sq.out \in Seq(S)
      BY <1>1 DEF SqueezeState
    <3>2. sq.quoted \in BOOLEAN
      BY <1>1 DEF SqueezeState
    <3>3. e \in BOOLEAN
      OBVIOUS
    <3>4. t \in BOOLEAN
      <4>1. CASE c = QuoteMark /\ ~ sq.escaped
        BY <4>1
      <4>2. CASE ~ (c = QuoteMark /\ ~ sq.escaped)
        BY <3>2, <4>2
      <4> QED BY <4>1, <4>2
    <3>5. o \in Seq(S)
      BY <3>1
    <3> QED BY <3>3, <3>4, <3>5
  <2>5. (e <=> next.escaped) /\ (t <=> next.inText)
    BY <1>1, <2>2
  <2> HIDE DEF o, e, t
  <2>6. sq2 \in SqueezeState(S) /\ (sq2.quoted <=> next.inText) /\ (sq2.escaped <=> next.escaped)
    BY <2>4, <2>5 DEF SqueezeState
  <2> HIDE DEF sq2
  <2>7. w \in Seq(S) /\ v \in Seq(S) /\ st.out \in Seq(S) /\ st.out \o w \in Seq(S)
    <3>1. w \in Seq(S) /\ v \in Seq(S)
      BY <2>2, SeqMonotonic
    <3>2. st.out \in Seq(S)
      BY DEF LayState
    <3> QED BY <3>1, <3>2, ConcatProperties
  <2> DEFINE x == st.out \o w
  <2>8. Folded("squeeze", Unquoted, x) = sq
    <3>1. Folded("squeeze", Unquoted, x) = Folded("squeeze", sq, w)
      BY <1>1, <2>7, FoldConcat
    <3>2. CASE st.inText
      BY <2>2, <3>1, <3>2, FoldEmpty
    <3>3. CASE ~ st.inText
      BY <1>1, <2>2, <3>1, <3>3, WhiteSqueezed
    <3> QED BY <3>2, <3>3
  <2> HIDE DEF x
  <2>9. x \in Seq(S) /\ x \o <<c>> = Append(x, c) /\ x \o <<c>> \in Seq(S)
    <3>1. x \in Seq(S)
      BY <2>7 DEF x
    <3> QED BY <3>1
  <2>10. Folded("squeeze", Unquoted, x \o <<c>>) = sq2
    <3>1. Folded("squeeze", Unquoted, Append(x, c)) = FoldStep("squeeze", sq, c)
      BY <2>8, <2>9, FoldAppend
    <3>2. FoldStep("squeeze", sq, c) = Squeeze(sq, c)
      BY DEF FoldStep
    <3> QED BY <2>3, <2>9, <3>1, <3>2
  <2>11. Folded("squeeze", Unquoted, (x \o <<c>>) \o v) = Folded("squeeze", sq2, v)
    <3> DEFINE y == x \o <<c>>
    <3>1. y \in Seq(S)
      BY <2>9
    <3> HIDE DEF y
    <3>2. Folded("squeeze", Unquoted, y \o v) = Folded("squeeze", Folded("squeeze", Unquoted, y), v)
      BY <2>7, <3>1, FoldConcat
    <3> QED BY <2>10, <3>2 DEF y
  <2>12. Folded("squeeze", sq2, v) = sq2
    <3>1. CASE next.inText
      BY <2>2, <3>1, FoldEmpty
    <3>2. CASE ~ next.inText
      BY <2>2, <2>6, <3>2, WhiteSqueezed
    <3> QED BY <3>1, <3>2
  <2> QED BY <2>2, <2>3, <2>6, <2>11, <2>12 DEF SameSqueezed, x
<1> QED BY <1>2, <1>3

LEMMA LayoutKeeps ==
  ASSUME NEW A, NEW s \in Seq(A)
  PROVE  Squeezed(Pretty(s)) = Squeezed(s)
<1> DEFINE S == A \cup White \cup {":"}
           Good == {u \in Seq(S) :
                      LET st == Folded("lay", Started, u)
                      IN st \in LayState(S) /\ Calm(st) /\ SameSqueezed(S, st, Folded("squeeze", Unquoted, u))}
<1>1. White \cup {":"} \subseteq S /\ A \subseteq S
  OBVIOUS
<1> HIDE DEF S
<1>2. <<>> \in Good
  <2>1. Folded("lay", Started, <<>>) = Started /\ Folded("squeeze", Unquoted, <<>>) = Unquoted
    BY FoldEmpty
  <2>2. Started \in LayState(S) /\ Started.out = <<>> /\ ~ Started.inText /\ ~ Started.escaped
    BY DEF Started, LayState
  <2>3. Unquoted \in SqueezeState(S) /\ ~ Unquoted.quoted /\ ~ Unquoted.escaped
    BY DEF Unquoted, SqueezeState
  <2>4. SameSqueezed(S, Started, Unquoted)
    BY <2>1, <2>2, <2>3 DEF SameSqueezed
  <2>5. <<>> \in Seq(S)
    OBVIOUS
  <2> QED BY <2>1, <2>2, <2>4, <2>5 DEF Calm
<1>3. ASSUME NEW u \in Seq(S), NEW c \in S, u \in Good PROVE Append(u, c) \in Good
  <2> DEFINE st == Folded("lay", Started, u)
             sq == Folded("squeeze", Unquoted, u)
             next == PrettyStep(st, c)
  <2>1. st \in LayState(S) /\ Calm(st) /\ SameSqueezed(S, st, sq)
    BY <1>3
  <2>2. Folded("lay", Started, Append(u, c)) = next /\ Folded("squeeze", Unquoted, Append(u, c)) = Squeeze(sq, c)
    BY FoldAppend DEF FoldStep
  <2>3. Append(u, c) \in Seq(S)
    OBVIOUS
  <2> HIDE DEF st, sq
  <2>4. next \in LayState(S) /\ Calm(next) /\ (LeftOut(st, next, c) \/ Laid(st, next, c))
    BY <1>1, <2>1, StepLays
  <2> HIDE DEF next
  <2>5. SameSqueezed(S, next, Squeeze(sq, c))
    BY <1>1, <2>1, <2>4, StepSqueezed
  <2> QED BY <2>2, <2>3, <2>4, <2>5
<1> HIDE DEF Good
<1>4. s \in Seq(S) /\ s \in Good
  <2>1. s \in Seq(S)
    BY <1>1, SeqMonotonic
  <2> QED BY <1>2, <1>3, <2>1, AllSequences
<1>5. Folded("lay", Started, s).out \in Seq(S)
      /\ Folded("squeeze", Unquoted, Folded("lay", Started, s).out) = Folded("squeeze", Unquoted, s)
  BY <1>4 DEF Good, LayState, SameSqueezed
<1> QED BY <1>4, <1>5, LayFold, SqueezeFold

-----------------------------------------------------------------------------
(* Sequences put together *)

IsFlat(f, q, n) == f = [i \in 1..n |-> IF i = 1 THEN q[i] ELSE f[i - 1] \o q[i]]

LEMMA FlatExists ==
  ASSUME NEW q, NEW n \in Nat
  PROVE  \E f : IsFlat(f, q, n)
<1> DEFINE Good == {k \in Nat : \E f : IsFlat(f, q, k)}
<1>1. 0 \in Good
  <2> DEFINE f == [i \in 1..0 |-> <<>>]
  <2>1. IsFlat(f, q, 0)
    BY DEF IsFlat
  <2> QED BY <2>1
<1>2. ASSUME NEW k \in Nat, k \in Good PROVE k + 1 \in Good
  <2>1. PICK f : IsFlat(f, q, k)
    BY <1>2
  <2> DEFINE last == IF k + 1 = 1 THEN q[k + 1] ELSE f[k] \o q[k + 1]
             g == [i \in 1..(k + 1) |-> IF i = k + 1 THEN last ELSE f[i]]
  <2>2. \A i \in 1..(k + 1) : i # k + 1 => i \in 1..k /\ g[i] = f[i]
    OBVIOUS
  <2>3. \A i \in 1..k : f[i] = IF i = 1 THEN q[i] ELSE f[i - 1] \o q[i]
    BY <2>1 DEF IsFlat
  <2>4. ASSUME NEW i \in 1..(k + 1) PROVE g[i] = IF i = 1 THEN q[i] ELSE g[i - 1] \o q[i]
    <3>1. CASE i = k + 1
      <4>1. g[i] = last
        BY <3>1
      <4>2. CASE k = 0
        BY <3>1, <4>1, <4>2
      <4>3. CASE k # 0
        <5>1. k \in 1..(k + 1) /\ g[k] = f[k] /\ i - 1 = k /\ i # 1
          BY <3>1, <4>3
        <5> HIDE DEF g
        <5> QED BY <3>1, <4>1, <4>3, <5>1
      <4> QED BY <4>2, <4>3
    <3>2. CASE i # k + 1
      <4>1. i \in 1..k /\ g[i] = f[i]
        BY <2>2, <3>2
      <4>2. CASE i = 1
        BY <2>3, <4>1, <4>2
      <4>3. CASE i # 1
        <5>1. i - 1 \in 1..(k + 1) /\ i - 1 # k + 1
          BY <3>2, <4>3
        <5>2. g[i - 1] = f[i - 1]
          BY <2>2, <5>1
        <5> HIDE DEF g
        <5> QED BY <2>3, <4>1, <4>3, <5>2
      <4> QED BY <4>2, <4>3
    <3> QED BY <3>1, <3>2
  <2>5. g = [i \in 1..(k + 1) |-> IF i = 1 THEN q[i] ELSE g[i - 1] \o q[i]]
    BY <2>4
  <2> HIDE DEF g
  <2>6. IsFlat(g, q, k + 1)
    BY <2>5 DEF IsFlat
  <2> QED BY <2>6
<1> HIDE DEF Good
<1>3. Nat \subseteq Good
  BY <1>1, <1>2, AllNumbers
<1> QED BY <1>3 DEF Good

LEMMA FlatsAgree ==
  ASSUME NEW q, NEW r, NEW n \in Nat, NEW m \in Nat, n <= m, SameUpTo(q, r, n),
         NEW f, IsFlat(f, q, n), NEW g, IsFlat(g, r, m)
  PROVE  \A i \in 1..n : f[i] = g[i]
<1> DEFINE Good == {k \in Nat : k \in 1..n => f[k] = g[k]}
<1>1. 0 \in Good
  OBVIOUS
<1>2. ASSUME NEW k \in Nat, k \in Good PROVE k + 1 \in Good
  <2>1. SUFFICES ASSUME k + 1 <= n PROVE f[k + 1] = g[k + 1]
    OBVIOUS
  <2> DEFINE j == k + 1
  <2>2. j \in 1..n /\ j \in 1..m /\ j - 1 = k /\ q[j] = r[j]
    BY <2>1 DEF SameUpTo
  <2>3. f[j] = IF j = 1 THEN q[j] ELSE f[j - 1] \o q[j]
    BY <2>2 DEF IsFlat
  <2>4. g[j] = IF j = 1 THEN r[j] ELSE g[j - 1] \o r[j]
    BY <2>2 DEF IsFlat
  <2>5. j # 1 => f[k] = g[k]
    BY <1>2, <2>1
  <2> HIDE DEF j
  <2> QED BY <2>2, <2>3, <2>4, <2>5 DEF j
<1> HIDE DEF Good
<1>3. Nat \subseteq Good
  BY <1>1, <1>2, AllNumbers
<1> QED BY <1>3 DEF Good

FlatOf(q) == CHOOSE f : IsFlat(f, q, Len(q))

LEMMA FlattenIs ==
  ASSUME NEW S, NEW q \in Seq(S)
  PROVE  /\ Len(q) = 0 => FlattenSeq(q) = q
         /\ Len(q) # 0 => FlattenSeq(q) = FlatOf(q)[Len(q)]
         /\ IsFlat(FlatOf(q), q, Len(q))
<1>1. Len(q) \in Nat
  OBVIOUS
<1>2. IsFlat(FlatOf(q), q, Len(q))
  BY <1>1, FlatExists, Zenon DEF FlatOf
<1>3. Len(q) # 0 => FlattenSeq(q) = FlatOf(q)[Len(q)]
  BY Zenon DEF FlattenSeq, FlatOf, IsFlat
<1> QED BY <1>2, <1>3 DEF FlattenSeq

LEMMA FlattenEmpty == FlattenSeq(<<>>) = <<>>
<1>1. <<>> \in Seq({}) /\ Len(<<>>) = 0
  OBVIOUS
<1> QED BY <1>1, FlattenIs

LEMMA FlattenAppend ==
  ASSUME NEW S, NEW q \in Seq(Seq(S)), NEW x \in Seq(S)
  PROVE  FlattenSeq(Append(q, x)) = FlattenSeq(q) \o x
<1> DEFINE n == Len(q)
           r == Append(q, x)
           f == FlatOf(q)
           g == FlatOf(r)
<1>1. n \in Nat /\ r \in Seq(Seq(S)) /\ Len(r) = n + 1 /\ r[n + 1] = x /\ \A i \in 1..n : q[i] = r[i]
  OBVIOUS
<1>2. /\ n = 0 => FlattenSeq(q) = q
      /\ n # 0 => FlattenSeq(q) = f[n]
      /\ IsFlat(f, q, n)
  BY FlattenIs
<1>3. IsFlat(g, r, n + 1) /\ FlattenSeq(r) = g[n + 1]
  <2> HIDE DEF n, r
  <2>1. Len(r) # 0
    BY <1>1
  <2>2. IsFlat(g, r, Len(r)) /\ FlattenSeq(r) = g[Len(r)]
    BY <1>1, <2>1, FlattenIs
  <2> HIDE DEF g
  <2> QED BY <1>1, <2>2
<1> HIDE DEF f, g, n, r
<1>4. g[n + 1] = IF n + 1 = 1 THEN r[n + 1] ELSE g[n] \o r[n + 1]
  <2>1. n + 1 \in 1..(n + 1) /\ (n + 1) - 1 = n
    BY <1>1
  <2> QED BY <1>3, <2>1 DEF IsFlat
<1>5. CASE n = 0
  <2>1. q = <<>> /\ <<>> \o x = x
    BY <1>1, <1>5 DEF n
  <2> QED BY <1>1, <1>2, <1>3, <1>4, <1>5, <2>1 DEF r
<1>6. CASE n # 0
  <2>1. f[n] = g[n]
    <3>1. n \in 1..n /\ n + 1 \in Nat /\ n <= n + 1
      BY <1>1, <1>6
    <3>2. SameUpTo(q, r, n)
      BY <1>1 DEF SameUpTo
    <3>3. IsFlat(f, q, n) /\ IsFlat(g, r, n + 1) /\ n \in Nat
      BY <1>1, <1>2, <1>3
    <3>4. \A i \in 1..n : f[i] = g[i]
      BY ONLY <3>1, <3>2, <3>3, FlatsAgree
    <3> QED BY <3>1, <3>4
  <2>2. FlattenSeq(r) = g[n] \o x /\ FlattenSeq(q) = g[n]
    BY <1>1, <1>2, <1>3, <1>4, <1>6, <2>1
  <2> QED BY <2>2 DEF r
<1> QED BY <1>5, <1>6

LEMMA FlattenType ==
  ASSUME NEW S, NEW q \in Seq(Seq(S))
  PROVE  FlattenSeq(q) \in Seq(S)
<1> DEFINE Good == {r \in Seq(Seq(S)) : FlattenSeq(r) \in Seq(S)}
<1>1. <<>> \in Good
  <2>1. <<>> \in Seq(Seq(S)) /\ <<>> \in Seq(S)
    OBVIOUS
  <2> QED BY <2>1, FlattenEmpty
<1>2. ASSUME NEW r \in Seq(Seq(S)), NEW x \in Seq(S), r \in Good PROVE Append(r, x) \in Good
  <2>1. FlattenSeq(r) \in Seq(S) /\ FlattenSeq(Append(r, x)) = FlattenSeq(r) \o x
    BY <1>2, FlattenAppend
  <2>2. Append(r, x) \in Seq(Seq(S))
    OBVIOUS
  <2> QED BY <2>1, <2>2, ConcatProperties
<1> HIDE DEF Good
<1>3. q \in Good
  BY <1>1, <1>2, AllSequences
<1> QED BY <1>3 DEF Good

-----------------------------------------------------------------------------
(* Numbers in their order *)

Lists(q, I) == q \in Seq(Nat) /\ ToSet(q) = I /\ Ascending(q)

LEMMA ListedThere ==
  ASSUME NEW n \in Nat, NEW I \in SUBSET (1..n)
  PROVE  \E q : Lists(q, I)
<1> DEFINE Good == {k \in Nat : \A J \in SUBSET (1..k) : \E q : Lists(q, J)}
<1>1. 0 \in Good
  <2>1. SUFFICES ASSUME NEW J \in SUBSET (1..0) PROVE \E q : Lists(q, J)
    OBVIOUS
  <2>2. J = {}
    OBVIOUS
  <2>3. Lists(<<>>, J)
    BY <2>2 DEF Lists, ToSet, Ascending
  <2> QED BY <2>3
<1>2. ASSUME NEW k \in Nat, k \in Good PROVE k + 1 \in Good
  <2>1. SUFFICES ASSUME NEW J \in SUBSET (1..(k + 1)) PROVE \E q : Lists(q, J)
    OBVIOUS
  <2> DEFINE U == J \ {k + 1}
  <2>2. U \in SUBSET (1..k)
    OBVIOUS
  <2>3. PICK q : Lists(q, U)
    BY <1>2, <2>2
  <2>4. CASE k + 1 \notin J
    <3>1. U = J
      BY <2>4
    <3> QED BY <2>3, <3>1
  <2>5. CASE k + 1 \in J
    <3> DEFINE r == Append(q, k + 1)
    <3>1. q \in Seq(Nat) /\ DOMAIN q = 1..Len(q) /\ U = {q[i] : i \in DOMAIN q} /\ Ascending(q)
      BY <2>3 DEF Lists, ToSet
    <3>2. r \in Seq(Nat) /\ DOMAIN r = 1..(Len(q) + 1) /\ r[Len(q) + 1] = k + 1
          /\ \A i \in 1..Len(q) : r[i] = q[i] /\ q[i] \in U
      BY <3>1
    <3>3. J = U \cup {k + 1} /\ \A x \in U : x \in Nat /\ x < k + 1
      BY <2>2, <2>5
    <3> HIDE DEF U, r
    <3>4. \A i \in 1..(Len(q) + 1) : i \in 1..Len(q) \/ i = Len(q) + 1
      BY <3>1
    <3>5. ToSet(r) = J
      <4>1. \A i \in DOMAIN r : r[i] \in J
        BY <3>2, <3>3, <3>4
      <4>2. \A x \in J : \E i \in DOMAIN r : x = r[i]
        <5>1. \A i \in 1..Len(q) : i \in DOMAIN r
          BY <3>1, <3>2
        <5>2. Len(q) + 1 \in DOMAIN r
          BY <3>1, <3>2
        <5> QED BY <3>1, <3>2, <3>3, <5>1, <5>2
      <4> QED BY <4>1, <4>2 DEF ToSet
    <3>6. Ascending(r)
      <4>1. SUFFICES ASSUME NEW i \in DOMAIN r, NEW j \in DOMAIN r, i < j PROVE r[i] < r[j]
        BY DEF Ascending
      <4>2. i \in 1..Len(q)
        BY <3>1, <3>2, <4>1
      <4>3. CASE j = Len(q) + 1
        BY <3>2, <3>3, <4>2, <4>3
      <4>4. CASE j \in 1..Len(q)
        BY <3>1, <3>2, <4>1, <4>2, <4>4 DEF Ascending
      <4> QED BY <3>2, <3>4, <4>3, <4>4
    <3>7. Lists(r, J)
      BY <3>2, <3>5, <3>6 DEF Lists
    <3> QED BY <3>7
  <2> QED BY <2>4, <2>5
<1> HIDE DEF Good
<1>3. Nat \subseteq Good
  BY <1>1, <1>2, AllNumbers
<1> QED BY <1>3 DEF Good

LEMMA InOrderLists ==
  ASSUME NEW n \in Nat, NEW I \in SUBSET (1..n)
  PROVE  Lists(InOrder(I), I)
<1>1. PICK q : Lists(q, I)
  BY ListedThere
<1> DEFINE k == Len(q)
<1>2. k \in Nat /\ q \in [1..k -> I]
      /\ (\A x \in I : \E i \in 1..k : q[i] = x)
  BY <1>1 DEF Lists, ToSet
<1>3. \A i, j \in 1..k : q[i] = q[j] => i = j
  BY <1>1, <1>2 DEF Lists, Ascending
<1> HIDE DEF k
<1>4. q \in Bijection(1..k, I)
  BY <1>2, <1>3 DEF Bijection, Injection, Surjection, IsInjective
<1>5. Cardinality(I) = k
  <2>1. IsFiniteSet(1..k) /\ Cardinality(1..k) = k
    BY <1>2, FS_Interval
  <2>2. ExistsBijection(1..k, I)
    BY <1>4 DEF ExistsBijection
  <2> QED BY <2>1, <2>2, FS_Bijection
<1>6. q \in [1..Cardinality(I) -> I] /\ ToSet(q) = I /\ Ascending(q)
  BY <1>1, <1>2, <1>5 DEF Lists
<1> DEFINE o == InOrder(I)
<1>7. o \in [1..Cardinality(I) -> I] /\ ToSet(o) = I /\ Ascending(o)
  BY <1>6 DEF InOrder
<1> HIDE DEF o
<1>8. o \in Seq(Nat)
  <2>1. o \in [1..k -> I]
    BY <1>5, <1>7
  <2>2. I \subseteq Nat
    OBVIOUS
  <2>3. o \in [1..k -> Nat]
    BY ONLY <2>1, <2>2, Zenon
  <2> QED BY <1>2, <2>3
<1> QED BY <1>7, <1>8 DEF Lists, o

\* Lists of numbers, those of the one below those of the other.
LEMMA ListsConcat ==
  ASSUME NEW q, NEW I, Lists(q, I), NEW r, NEW J, Lists(r, J), \A x \in I, y \in J : x < y
  PROVE  Lists(q \o r, I \cup J)
<1> DEFINE t == q \o r
<1>1. q \in Seq(Nat) /\ r \in Seq(Nat) /\ I = {q[i] : i \in 1..Len(q)} /\ J = {r[i] : i \in 1..Len(r)}
      /\ Ascending(q) /\ Ascending(r) /\ DOMAIN q = 1..Len(q) /\ DOMAIN r = 1..Len(r)
  BY DEF Lists, ToSet
<1>2. t \in Seq(Nat) /\ Len(t) = Len(q) + Len(r) /\ DOMAIN t = 1..(Len(q) + Len(r))
      /\ \A i \in 1..(Len(q) + Len(r)) : t[i] = IF i <= Len(q) THEN q[i] ELSE r[i - Len(q)]
  <2>1. t \in Seq(Nat) /\ Len(t) = Len(q) + Len(r)
      /\ \A i \in 1..(Len(q) + Len(r)) : t[i] = IF i <= Len(q) THEN q[i] ELSE r[i - Len(q)]
    BY <1>1, ConcatProperties
  <2> HIDE DEF t
  <2> QED BY <2>1
<1> HIDE DEF t
<1>3. ASSUME NEW i \in 1..(Len(q) + Len(r))
      PROVE  \/ i \in 1..Len(q) /\ t[i] = q[i] /\ t[i] \in I
             \/ i > Len(q) /\ i - Len(q) \in 1..Len(r) /\ t[i] = r[i - Len(q)] /\ t[i] \in J
  <2>1. CASE i <= Len(q)
    <3>1. i \in 1..Len(q)
      BY <1>1, <2>1
    <3> QED BY <1>1, <1>2, <2>1, <3>1
  <2>2. CASE ~ (i <= Len(q))
    <3>1. i - Len(q) \in 1..Len(r) /\ i > Len(q)
      BY <1>1, <2>2
    <3> QED BY <1>1, <1>2, <2>2, <3>1
  <2> QED BY <2>1, <2>2
<1>4. ToSet(t) = I \cup J
  <2>1. \A i \in DOMAIN t : t[i] \in I \cup J
    BY <1>2, <1>3
  <2>2. ASSUME NEW x \in I PROVE \E i \in DOMAIN t : x = t[i]
    <3>1. PICK i \in 1..Len(q) : x = q[i]
      BY <1>1
    <3>2. i \in 1..(Len(q) + Len(r)) /\ i <= Len(q)
      BY <1>1
    <3> QED BY <1>2, <3>1, <3>2
  <2>3. ASSUME NEW x \in J PROVE \E i \in DOMAIN t : x = t[i]
    <3>1. PICK i \in 1..Len(r) : x = r[i]
      BY <1>1
    <3> DEFINE j == Len(q) + i
    <3>2. j \in 1..(Len(q) + Len(r)) /\ ~ (j <= Len(q)) /\ j - Len(q) = i
      BY <1>1
    <3> HIDE DEF j
    <3>3. t[j] = x
      BY <1>2, <3>1, <3>2
    <3> QED BY <1>2, <3>2, <3>3
  <2> QED BY <2>1, <2>2, <2>3 DEF ToSet
<1>5. Ascending(t)
  <2>1. SUFFICES ASSUME NEW i \in DOMAIN t, NEW j \in DOMAIN t, i < j PROVE t[i] < t[j]
    BY DEF Ascending
  <2>2. i \in 1..(Len(q) + Len(r)) /\ j \in 1..(Len(q) + Len(r))
    BY <1>2
  <2>3. CASE i \in 1..Len(q) /\ j \in 1..Len(q)
    <3>1. t[i] = q[i] /\ t[j] = q[j]
      BY <1>2, <2>2, <2>3
    <3> QED BY <1>1, <2>1, <2>3, <3>1 DEF Ascending
  <2>4. CASE i \in 1..Len(q) /\ j > Len(q)
    <3>1. t[i] \in I /\ t[j] \in J
      BY <1>1, <1>3, <2>2, <2>4
    <3> QED BY <3>1
  <2>5. CASE i > Len(q) /\ j > Len(q)
    <3> DEFINE a == i - Len(q)
               b == j - Len(q)
    <3>1. a \in 1..Len(r) /\ t[i] = r[a] /\ b \in 1..Len(r) /\ t[j] = r[b]
      <4>1. ~ (i \in 1..Len(q)) /\ ~ (j \in 1..Len(q))
        BY <1>1, <2>2, <2>5
      <4> QED BY <1>3, <2>2, <4>1
    <3>2. a < b
      BY <1>1, <2>1, <2>2
    <3> HIDE DEF a, b
    <3> QED BY <1>1, <3>1, <3>2 DEF Ascending
  <2>6. i \in 1..Len(q) \/ i > Len(q)
    BY <1>1, <2>2
  <2>7. j \in 1..Len(q) \/ j > Len(q)
    BY <1>1, <2>2
  <2>8. ~ (i > Len(q) /\ j \in 1..Len(q))
    BY <1>1, <2>1, <2>2
  <2> QED BY <2>3, <2>4, <2>5, <2>6, <2>7, <2>8
<1> QED BY <1>2, <1>4, <1>5 DEF Lists, t

-----------------------------------------------------------------------------
(* The lines of a text *)

\* The places before one that follow a line end, but for the end of the text.
NewLines(s, n) == {p \in 1..n : s[p] = "nl" /\ p < Len(s)}

PieceUpto(s, first) == IF first + Interval < Len(s) THEN first + Interval ELSE Len(s)

LEMMA PieceListed ==
  ASSUME NEW S, NEW s \in Seq(S), NEW first \in Nat
  PROVE  Lists(StartsOfPiece(s, first), {p \in (first + 1)..PieceUpto(s, first) : s[p] = "nl" /\ p < Len(s)})
<1> DEFINE e == PieceUpto(s, first)
           I == {p \in (first + 1)..e : s[p] = "nl" /\ p < Len(s)}
<1>1. Len(s) \in Nat /\ e \in Int /\ e <= Len(s)
  BY BodiesAssumption DEF PieceUpto
<1>2. StartsOfPiece(s, first) = InOrder(I)
  BY DEF StartsOfPiece, PieceUpto
<1> HIDE DEF e
<1>3. I \in SUBSET (1..Len(s))
  BY <1>1
<1> HIDE DEF I
<1> QED BY <1>1, <1>2, <1>3, InOrderLists DEF I, e

LEMMA PiecesListed ==
  ASSUME NEW S, NEW s \in Seq(S), NEW n \in Nat
  PROVE  LET pieces == [k \in 1..n |-> StartsOfPiece(s, (k - 1) * Interval)]
         IN /\ pieces \in Seq(Seq(Nat))
            /\ Lists(FlattenSeq(pieces), NewLines(s, IF n * Interval < Len(s) THEN n * Interval ELSE Len(s)))
<1> DEFINE Parts(m) == [k \in 1..m |-> StartsOfPiece(s, (k - 1) * Interval)]
           Upto(m) == IF m * Interval < Len(s) THEN m * Interval ELSE Len(s)
           Good == {m \in Nat : Parts(m) \in Seq(Seq(Nat)) /\ Lists(FlattenSeq(Parts(m)), NewLines(s, Upto(m)))}
<1>1. Interval \in Nat /\ Interval > 0 /\ Len(s) \in Nat
  BY BodiesAssumption
<1>2. 0 \in Good
  <2>1. Parts(0) = <<>>
    OBVIOUS
  <2>2. 0 * Interval = 0
    BY <1>1
  <2>3. NewLines(s, Upto(0)) = {}
    BY <1>1, <2>2 DEF NewLines
  <2>4. Lists(<<>>, {})
    BY DEF Lists, ToSet, Ascending
  <2>5. <<>> \in Seq(Seq(Nat))
    OBVIOUS
  <2> HIDE DEF Parts, Upto
  <2> QED BY <2>1, <2>3, <2>4, <2>5, FlattenEmpty
<1>3. ASSUME NEW m \in Nat, m \in Good PROVE m + 1 \in Good
  <2> DEFINE first == m * Interval
             piece == StartsOfPiece(s, first)
             I == {p \in (first + 1)..PieceUpto(s, first) : s[p] = "nl" /\ p < Len(s)}
  <2>1. first \in Nat /\ (m + 1) * Interval = first + Interval
    BY <1>1
  <2> HIDE DEF first
  <2>2. Lists(piece, I)
    BY <2>1, PieceListed
  <2>3. Parts(m) \in Seq(Seq(Nat)) /\ Lists(FlattenSeq(Parts(m)), NewLines(s, Upto(m)))
    BY <1>3
  <2>4. Parts(m + 1) = Append(Parts(m), piece) /\ Parts(m + 1) \in Seq(Seq(Nat))
    <3>1. piece \in Seq(Nat)
      BY <2>2 DEF Lists
    <3> DEFINE q == Parts(m)
               t == Append(q, piece)
               r == Parts(m + 1)
    <3>2. Len(q) = m /\ \A i \in 1..m : q[i] = StartsOfPiece(s, (i - 1) * Interval)
      OBVIOUS
    <3>3. DOMAIN r = 1..(m + 1) /\ \A i \in 1..(m + 1) : r[i] = StartsOfPiece(s, (i - 1) * Interval)
      OBVIOUS
    <3>4. q \in Seq(Seq(Nat))
      BY <2>3
    <3>5. r[m + 1] = piece
      BY <3>3 DEF first
    <3> HIDE DEF q, r, piece
    <3>6. t \in Seq(Seq(Nat)) /\ DOMAIN t = 1..(m + 1) /\ \A i \in 1..(m + 1) : t[i] = IF i <= m THEN q[i] ELSE piece
      BY <3>1, <3>2, <3>4
    <3> HIDE DEF t
    <3>7. \A i \in 1..(m + 1) : t[i] = r[i]
      <4>1. \A i \in 1..(m + 1) : i \in 1..m \/ i = m + 1
        OBVIOUS
      <4> QED BY <3>2, <3>3, <3>5, <3>6, <4>1
    <3>8. r = [i \in 1..(m + 1) |-> r[i]]
      BY DEF r
    <3>9. t = [i \in 1..(m + 1) |-> t[i]]
      BY <3>6
    <3>10. t = r
      BY <3>7, <3>8, <3>9
    <3> QED BY <3>6, <3>10 DEF q, r, t
  <2> HIDE DEF Parts, piece
  <2>5. FlattenSeq(Parts(m + 1)) = FlattenSeq(Parts(m)) \o piece
    BY <2>2, <2>3, <2>4, FlattenAppend DEF Lists
  <2>6. \A x \in NewLines(s, Upto(m)), y \in I : x < y
    BY <1>1, <2>1 DEF NewLines, first
  <2>7. Lists(FlattenSeq(Parts(m)) \o piece, NewLines(s, Upto(m)) \cup I)
    <3> HIDE DEF I, Upto
    <3> QED BY <2>2, <2>3, <2>6, ListsConcat
  <2>8. NewLines(s, Upto(m)) \cup I = NewLines(s, Upto(m + 1))
    <3>1. Upto(m) = (IF first < Len(s) THEN first ELSE Len(s))
          /\ Upto(m + 1) = (IF first + Interval < Len(s) THEN first + Interval ELSE Len(s))
      BY <2>1 DEF first
    <3> HIDE DEF Upto
    <3> QED BY <1>1, <2>1, <3>1 DEF NewLines, PieceUpto
  <2> HIDE DEF Upto, I
  <2>9. Lists(FlattenSeq(Parts(m + 1)), NewLines(s, Upto(m + 1)))
    BY ONLY <2>5, <2>7, <2>8
  <2>10. m + 1 \in Nat
    OBVIOUS
  <2> QED BY <2>4, <2>9, <2>10
<1> HIDE DEF Good
<1>4. Nat \subseteq Good
  BY <1>2, <1>3, AllNumbers
<1>5. n \in Good
  BY <1>4
<1> QED BY <1>5 DEF Good

LEMMA EnoughPieces ==
  ASSUME NEW a \in Nat, NEW b \in Nat, b > 0
  PROVE  LET n == (a + b - 1) \div b IN n \in Nat /\ n * b >= a
<1> DEFINE x == a + b - 1
           n == x \div b
           r == x % b
<1>1. x \in Nat
  OBVIOUS
<1>2. n \in Int /\ r \in 0..(b - 1) /\ x = b * n + r
  BY <1>1
<1> HIDE DEF n, r
<1>3. n * b = b * n
  BY <1>2
<1>4. n >= 0
  <2>1. SUFFICES ASSUME n <= -1 PROVE FALSE
    BY <1>2
  <2>2. b * n <= -b
    BY <1>2, <2>1
  <2> QED BY <1>1, <1>2, <2>2
<1>5. n * b >= a
  BY <1>2, <1>3
<1> QED BY <1>2, <1>4, <1>5 DEF n

\* Where the lines of a text start: at its start, and after the line ends but the
\* one the text stops with.
LineStarts(s) == {0} \cup NewLines(s, Len(s))

LEMMA StartsAre ==
  ASSUME NEW S, NEW s \in Seq(S), s # <<>>
  PROVE  Lists(Starts(s), LineStarts(s)) /\ Len(Starts(s)) >= 1 /\ Starts(s)[1] = 0
<1> DEFINE n == (Len(s) + Interval - 1) \div Interval
           q == FlattenSeq([k \in 1..n |-> StartsOfPiece(s, (k - 1) * Interval)])
<1>1. Interval \in Nat /\ Interval > 0 /\ Len(s) \in Nat
  BY BodiesAssumption
<1>2. n \in Nat /\ n * Interval >= Len(s)
  BY <1>1, EnoughPieces
<1>3. Starts(s) = <<0>> \o q
  BY Zenon DEF Starts
<1> HIDE DEF n
<1>4. Lists(q, NewLines(s, Len(s)))
  <2>1. Lists(q, NewLines(s, IF n * Interval < Len(s) THEN n * Interval ELSE Len(s)))
    BY <1>2, PiecesListed
  <2> HIDE DEF q
  <2>2. (IF n * Interval < Len(s) THEN n * Interval ELSE Len(s)) = Len(s)
    BY <1>1, <1>2
  <2> QED BY <2>1, <2>2
<1> HIDE DEF q
<1>5. Lists(<<0>>, {0})
  <2>1. <<0>> \in Seq(Nat) /\ Ascending(<<0>>)
    BY DEF Ascending
  <2>2. ToSet(<<0>>) = {0}
    BY DEF ToSet
  <2> QED BY <2>1, <2>2 DEF Lists
<1>6. \A x \in {0}, y \in NewLines(s, Len(s)) : x < y
  BY <1>1 DEF NewLines
<1>7. Lists(Starts(s), LineStarts(s))
  BY <1>3, <1>4, <1>5, <1>6, ListsConcat DEF LineStarts
<1>8. Len(<<0>> \o q) >= 1 /\ (<<0>> \o q)[1] = 0
  <2>1. q \in Seq(Nat) /\ <<0>> \in Seq(Nat)
    BY <1>4 DEF Lists
  <2> QED BY <2>1
<1> QED BY <1>3, <1>7, <1>8

\* A piece of a sequence.
LEMMA Stretch ==
  ASSUME NEW S, NEW s \in Seq(S), NEW a \in Nat, NEW b \in Nat, a <= b, b <= Len(s)
  PROVE  LET u == SubSeq(s, a + 1, b)
         IN u \in Seq(S) /\ Len(u) = b - a /\ DOMAIN u = 1..(b - a) /\ \A i \in 1..(b - a) : u[i] = s[a + i]
<1> DEFINE u == SubSeq(s, a + 1, b)
<1>1. \A i \in (a + 1)..b : s[i] \in S
  OBVIOUS
<1>2. /\ u \in Seq(S)
      /\ Len(u) = IF a + 1 <= b THEN b - (a + 1) + 1 ELSE 0
      /\ \A i \in 1..(b - (a + 1) + 1) : u[i] = s[(a + 1) + i - 1]
  BY <1>1, SubSeqProperties
<1> HIDE DEF u
<1>3. Len(u) = b - a /\ DOMAIN u = 1..(b - a) /\ b - (a + 1) + 1 = b - a
  BY <1>2
<1>4. \A i \in 1..(b - a) : u[i] = s[a + i]
  <2>1. \A i \in 1..(b - a) : (a + 1) + i - 1 = a + i
    OBVIOUS
  <2> QED BY <1>2, <1>3, <2>1
<1> QED BY <1>2, <1>3, <1>4 DEF u

LEMMA StretchesJoin ==
  ASSUME NEW S, NEW s \in Seq(S), NEW a \in Nat, NEW b \in Nat, NEW c \in Nat, a <= b, b <= c, c <= Len(s)
  PROVE  SubSeq(s, a + 1, b) \o SubSeq(s, b + 1, c) = SubSeq(s, a + 1, c)
<1>1. a + 1 \in 1..(Len(s) + 1) /\ b \in ((a + 1) - 1)..Len(s) /\ c \in b..Len(s)
  OBVIOUS
<1> QED BY <1>1, ConcatAdjacentSubSeq

\* Where a line ends.
LineEnd(s, i) == IF i + 1 <= Len(Starts(s)) THEN Starts(s)[i + 1] ELSE Len(s)

LEMMA SpanIs ==
  ASSUME NEW S, NEW s \in Seq(S), s # <<>>, NEW i \in 1..Len(Starts(s))
  PROVE  /\ Span(s, i - 1) = SubSeq(s, Starts(s)[i] + 1, LineEnd(s, i))
         /\ Starts(s)[i] \in Nat /\ LineEnd(s, i) \in Nat
         /\ Starts(s)[i] < LineEnd(s, i) /\ LineEnd(s, i) <= Len(s)
         /\ \A p \in Nat : Starts(s)[i] < p /\ p < LineEnd(s, i) => s[p] # "nl"
<1> DEFINE q == Starts(s)
<1>1. q \in Seq(Nat) /\ DOMAIN q = 1..Len(q) /\ Ascending(q) /\ Len(q) \in Nat
      /\ LineStarts(s) = {q[k] : k \in 1..Len(q)}
  <2>1. Lists(q, LineStarts(s))
    BY StartsAre
  <2> HIDE DEF q
  <2>2. q \in Seq(Nat) /\ DOMAIN q = 1..Len(q) /\ Len(q) \in Nat
    BY <2>1 DEF Lists
  <2>3. Ascending(q) /\ LineStarts(s) = {q[k] : k \in DOMAIN q}
    BY ONLY <2>1, Zenon DEF Lists, ToSet
  <2> QED BY <2>2, <2>3
<1>2. i \in Int /\ (i - 1) + 2 = i + 1 /\ (i - 1) + 1 = i
  BY <1>1
<1>3. Span(s, i - 1) = SubSeq(s, q[i] + 1, LineEnd(s, i))
  BY <1>2 DEF Span, LineEnd
<1>4. \A k \in 1..Len(q) : q[k] \in Nat /\ q[k] < Len(s)
  <2>1. Len(s) \in Nat /\ Len(s) > 0
    OBVIOUS
  <2>2. \A x \in LineStarts(s) : x \in Nat /\ x < Len(s)
    BY <2>1 DEF LineStarts, NewLines
  <2> HIDE DEF q
  <2> QED BY <1>1, <2>2
<1> DEFINE e == LineEnd(s, i)
<1>5. e = IF i + 1 <= Len(q) THEN q[i + 1] ELSE Len(s)
  BY DEF LineEnd
<1> HIDE DEF q, e
<1>6. q[i] \in Nat /\ e \in Nat /\ q[i] < e /\ e <= Len(s)
  <2>1. i \in 1..Len(q)
    BY DEF q
  <2>2. CASE i + 1 <= Len(q)
    <3>1. i + 1 \in 1..Len(q) /\ i < i + 1
      BY <1>1, <1>2, <2>1, <2>2
    <3> QED BY <1>1, <1>4, <1>5, <2>1, <2>2, <3>1 DEF Ascending
  <2>3. CASE ~ (i + 1 <= Len(q))
    BY <1>4, <1>5, <2>1, <2>3
  <2> QED BY <2>2, <2>3
<1>7. ASSUME NEW p \in Nat, q[i] < p, p < e, s[p] = "nl" PROVE FALSE
  <2>1. p \in LineStarts(s)
    BY <1>6, <1>7 DEF LineStarts, NewLines
  <2>2. PICK k \in 1..Len(q) : q[k] = p
    BY <1>1, <2>1
  <2>3. i \in 1..Len(q)
    BY DEF q
  <2>4. k > i
    <3>1. k < i => q[k] < q[i]
      BY <1>1, <2>3 DEF Ascending
    <3>2. k = i => q[k] = q[i]
      OBVIOUS
    <3>3. q[k] \in Nat /\ q[i] \in Nat /\ k \in Int
      BY <1>1, <1>4, <2>3
    <3> QED BY <1>2, <1>7, <2>2, <3>1, <3>2, <3>3
  <2>5. i + 1 \in 1..Len(q) /\ e = q[i + 1]
    BY <1>1, <1>2, <1>5, <2>4
  <2>6. k > i + 1 => q[i + 1] < q[k]
    BY <1>1, <1>2, <2>5 DEF Ascending
  <2>7. k = i + 1 \/ k > i + 1
    BY <1>1, <1>2, <2>4
  <2>8. q[k] \in Nat /\ q[i + 1] \in Nat
    BY <1>4, <2>5
  <2> QED BY <1>7, <2>2, <2>5, <2>6, <2>7, <2>8
<1> QED BY <1>3, <1>6, <1>7 DEF q, e

LEMMA SpansJoin ==
  ASSUME NEW S, NEW s \in Seq(S)
  PROVE  FlattenSeq([i \in DOMAIN Starts(s) |-> Span(s, i - 1)]) = s
<1>1. CASE s = <<>>
  <2>1. Starts(s) = <<>>
    BY <1>1 DEF Starts
  <2>2. [i \in DOMAIN Starts(s) |-> Span(s, i - 1)] = <<>>
    BY <2>1
  <2> QED BY <1>1, <2>2, FlattenEmpty
<1>2. CASE s # <<>>
  <2> DEFINE q == Starts(s)
             Upto(m) == IF m = 0 THEN 0 ELSE LineEnd(s, m)
             Lines(m) == [i \in 1..m |-> Span(s, i - 1)]
             Good == {m \in Nat : m <= Len(q) => /\ Lines(m) \in Seq(Seq(S))
                                                 /\ FlattenSeq(Lines(m)) = SubSeq(s, 1, Upto(m))}
  <2>1. q \in Seq(Nat) /\ Len(q) >= 1 /\ q[1] = 0 /\ Len(q) \in Nat /\ DOMAIN q = 1..Len(q)
    BY <1>2, StartsAre DEF Lists
  <2> HIDE DEF q
  <2>2. 0 \in Good
    <3>1. Lines(0) = <<>> /\ Upto(0) = 0
      OBVIOUS
    <3>2. SubSeq(s, 1, 0) = <<>> /\ <<>> \in Seq(Seq(S))
      BY SubSeqEmpty
    <3> HIDE DEF Lines, Upto
    <3> QED BY <3>1, <3>2, FlattenEmpty
  <2>3. ASSUME NEW m \in Nat, m \in Good PROVE m + 1 \in Good
    <3>1. SUFFICES ASSUME m + 1 <= Len(q)
                   PROVE  /\ Lines(m + 1) \in Seq(Seq(S))
                          /\ FlattenSeq(Lines(m + 1)) = SubSeq(s, 1, Upto(m + 1))
      OBVIOUS
    <3> DEFINE line == Span(s, m)
               a == q[m + 1]
               b == LineEnd(s, m + 1)
    <3>2. m + 1 \in 1..Len(q) /\ (m + 1) - 1 = m /\ m + 1 # 0
      BY <2>1, <3>1
    <3>3. line = SubSeq(s, a + 1, b) /\ a \in Nat /\ b \in Nat /\ a < b /\ b <= Len(s)
      BY <1>2, <3>2, SpanIs DEF q
    <3>4. Upto(m) = a /\ Upto(m + 1) = b
      <4>1. CASE m = 0
        BY <2>1, <4>1
      <4>2. CASE m # 0
        <5>1. LineEnd(s, m) = a
          BY <3>1, <4>2 DEF LineEnd, q
        <5> QED BY <3>2, <4>2, <5>1
      <4> QED BY <4>1, <4>2
    <3>5. Lines(m) \in Seq(Seq(S)) /\ FlattenSeq(Lines(m)) = SubSeq(s, 1, Upto(m))
      BY <2>1, <2>3, <3>1
    <3>6. line \in Seq(S)
      <4> HIDE DEF line, a, b
      <4> QED BY <3>3, Stretch
    <3>7. Lines(m + 1) = Append(Lines(m), line) /\ Lines(m + 1) \in Seq(Seq(S))
      <4> DEFINE u == Lines(m)
                 t == Append(u, line)
                 r == Lines(m + 1)
      <4>1. Len(u) = m /\ \A i \in 1..m : u[i] = Span(s, i - 1)
        OBVIOUS
      <4>2. DOMAIN r = 1..(m + 1) /\ \A i \in 1..(m + 1) : r[i] = Span(s, i - 1)
        OBVIOUS
      <4>3. r[m + 1] = line
        BY <3>2, <4>2
      <4>4. u \in Seq(Seq(S))
        BY <3>5
      <4> HIDE DEF u, r, line
      <4>5. t \in Seq(Seq(S)) /\ DOMAIN t = 1..(m + 1) /\ \A i \in 1..(m + 1) : t[i] = IF i <= m THEN u[i] ELSE line
        BY <3>6, <4>1, <4>4
      <4> HIDE DEF t
      <4>6. \A i \in 1..(m + 1) : t[i] = r[i]
        <5>1. \A i \in 1..(m + 1) : i \in 1..m \/ i = m + 1
          OBVIOUS
        <5> QED BY <4>1, <4>2, <4>3, <4>5, <5>1
      <4>7. r = [i \in 1..(m + 1) |-> r[i]]
        BY DEF r
      <4>8. t = [i \in 1..(m + 1) |-> t[i]]
        BY <4>5
      <4>9. t = r
        BY <4>6, <4>7, <4>8
      <4> QED BY <4>5, <4>9 DEF u, r, t
    <3> HIDE DEF Lines, Upto, line, a, b
    <3>8. FlattenSeq(Lines(m + 1)) = SubSeq(s, 1, a) \o line
      BY <3>4, <3>5, <3>6, <3>7, FlattenAppend
    <3>9. SubSeq(s, 1, a) \o SubSeq(s, a + 1, b) = SubSeq(s, 1, b)
      <4>1. 0 \in Nat /\ 0 <= a /\ a <= b /\ 0 + 1 = 1
        BY <3>3
      <4> QED BY <3>3, <4>1, StretchesJoin
    <3> QED BY <3>3, <3>4, <3>7, <3>8, <3>9
  <2> HIDE DEF Good
  <2>4. Nat \subseteq Good
    BY <2>2, <2>3, AllNumbers
  <2>5. FlattenSeq(Lines(Len(q))) = SubSeq(s, 1, Upto(Len(q)))
    BY <2>1, <2>4 DEF Good
  <2>6. Upto(Len(q)) = Len(s)
    BY <2>1 DEF LineEnd, q
  <2>7. [i \in DOMAIN q |-> Span(s, i - 1)] = Lines(Len(q))
    BY <2>1
  <2>8. SubSeq(s, 1, Len(s)) = s
    BY SubSeqFull
  <2> HIDE DEF Lines, Upto
  <2>9. FlattenSeq([i \in DOMAIN q |-> Span(s, i - 1)]) = s
    BY <2>5, <2>6, <2>7, <2>8
  <2> QED BY <2>9 DEF q
<1> QED BY <1>1, <1>2

LEMMA LinesKept ==
  ASSUME NEW S, NEW s \in Seq(S)
  PROVE  LinesJoin(s)
<1> DEFINE lines == [i \in DOMAIN Starts(s) |-> Span(s, i - 1)]
<1>1. FlattenSeq(lines) = s
  BY SpansJoin
<1>2. ASSUME NEW i \in DOMAIN lines PROVE lines[i] # <<>> /\ ~Has(Front(lines[i]), "nl")
  <2>1. s # <<>>
    <3>1. s = <<>> => DOMAIN Starts(s) = {}
      BY DEF Starts
    <3> QED BY <1>2, <3>1
  <2>2. Starts(s) \in Seq(Nat)
    BY <2>1, StartsAre DEF Lists
  <2>3. i \in 1..Len(Starts(s)) /\ lines[i] = Span(s, i - 1)
    BY <1>2, <2>2
  <2> DEFINE a == Starts(s)[i]
             b == LineEnd(s, i)
             line == lines[i]
  <2>4. line = SubSeq(s, a + 1, b) /\ a \in Nat /\ b \in Nat /\ a < b /\ b <= Len(s)
        /\ \A p \in Nat : a < p /\ p < b => s[p] # "nl"
    BY <2>1, <2>3, SpanIs
  <2> HIDE DEF line, a, b
  <2>5. line \in Seq(S) /\ Len(line) = b - a /\ \A k \in 1..(b - a) : line[k] = s[a + k]
    BY <2>4, Stretch
  <2>6. line # <<>>
    BY <2>4, <2>5
  <2>7. ASSUME NEW k \in DOMAIN Front(line), Front(line)[k] = "nl" PROVE FALSE
    <3> DEFINE f == Front(line)
               n == Len(line) - 1
    <3>1. n \in Nat /\ n = (b - a) - 1 /\ n <= Len(line)
      BY <2>4, <2>5
    <3>2. f = SubSeq(line, 1, n)
      BY DEF Front
    <3> HIDE DEF n, f
    <3>3. DOMAIN f = 1..n /\ \A j \in 1..n : f[j] = line[j]
      <4>1. 0 \in Nat /\ 0 <= n /\ 0 + 1 = 1 /\ n - 0 = n /\ \A j \in 1..n : 0 + j = j
        BY <3>1
      <4>2. DOMAIN SubSeq(line, 0 + 1, n) = 1..(n - 0) /\ \A j \in 1..(n - 0) : SubSeq(line, 0 + 1, n)[j] = line[0 + j]
        BY <2>5, <3>1, <4>1, Stretch
      <4> QED BY <3>2, <4>1, <4>2
    <3>4. k \in 1..n /\ line[k] = "nl"
      BY <2>7, <3>3 DEF f
    <3>5. k \in 1..(b - a) /\ a + k \in Nat /\ a < a + k /\ a + k < b
      BY <2>4, <3>1, <3>4
    <3> QED BY <2>4, <2>5, <3>4, <3>5
  <2> QED BY <2>6, <2>7 DEF Has, line
<1> QED BY <1>1, <1>2 DEF LinesJoin

-----------------------------------------------------------------------------
(* Texts of whole characters, and the places in them *)

Entire(s) ==
    \A i \in DOMAIN s : /\ s[i] = "hi" => i + 1 \in DOMAIN s /\ s[i + 1] = "lo"
                        /\ s[i] = "lo" => i # 1 /\ s[i - 1] = "hi"

\* No character is around this place.
BetweenCharacters(s, p) == p = Len(s) \/ s[p + 1] # "lo"

LEMMA EntireIsWhole ==
  ASSUME NEW S, NEW s \in Seq(S), Entire(s)
  PROVE  WholeUntil(s) = Len(s)
<1> DEFINE wrong == {i \in DOMAIN s : \/ s[i] = "hi" /\ (i = Len(s) \/ s[i + 1] # "lo")
                                      \/ s[i] = "lo" /\ (i = 1 \/ s[i - 1] # "hi")}
<1>1. Len(s) + 1 \notin DOMAIN s
  OBVIOUS
<1>2. wrong = {}
  BY <1>1 DEF Entire
<1> QED BY <1>2 DEF WholeUntil

LEMMA EntireStretch ==
  ASSUME NEW S, NEW s \in Seq(S), Entire(s), NEW a \in Nat, NEW b \in Nat, a <= b, b <= Len(s),
         BetweenCharacters(s, a), BetweenCharacters(s, b)
  PROVE  Entire(SubSeq(s, a + 1, b))
<1> DEFINE u == SubSeq(s, a + 1, b)
<1>1. u \in Seq(S) /\ DOMAIN u = 1..(b - a) /\ \A i \in 1..(b - a) : u[i] = s[a + i]
  BY Stretch
<1> HIDE DEF u
<1>2. ASSUME NEW i \in DOMAIN u
      PROVE  /\ u[i] = "hi" => i + 1 \in DOMAIN u /\ u[i + 1] = "lo"
             /\ u[i] = "lo" => i # 1 /\ u[i - 1] = "hi"
  <2> DEFINE k == a + i
  <2>1. i \in 1..(b - a) /\ k \in DOMAIN s /\ u[i] = s[k]
    BY <1>1
  <2>2. CASE u[i] = "hi"
    <3>1. k + 1 \in DOMAIN s /\ s[k + 1] = "lo"
      BY <2>1, <2>2 DEF Entire
    <3>2. k # b
      BY <3>1 DEF BetweenCharacters
    <3>3. i + 1 \in 1..(b - a) /\ a + (i + 1) = k + 1
      BY <2>1, <3>2
    <3> HIDE DEF k
    <3> QED BY <1>1, <2>2, <3>1, <3>3
  <2>3. CASE u[i] = "lo"
    <3>1. k # 1 /\ s[k - 1] = "hi"
      BY <2>1, <2>3 DEF Entire
    <3>2. i # 1
      <4>1. i = 1 => k = a + 1 /\ a # Len(s)
        BY <2>1
      <4>2. s[k] = "lo"
        BY <2>1, <2>3
      <4> HIDE DEF k
      <4> QED BY <4>1, <4>2 DEF BetweenCharacters
    <3>3. i - 1 \in 1..(b - a) /\ a + (i - 1) = k - 1
      BY <2>1, <3>2
    <3> HIDE DEF k
    <3>4. u[i - 1] = "hi"
      BY <1>1, <3>1, <3>3
    <3> QED BY <2>3, <3>2, <3>4
  <2> QED BY <2>2, <2>3
<1> QED BY <1>2 DEF Entire, u

LEMMA WithoutLastIs ==
  ASSUME NEW S, NEW s \in Seq(S), NEW c
  PROVE  LET u == WithoutLast(s, c)
         IN /\ u \in Seq(S) /\ Len(u) <= Len(s) /\ \A i \in 1..Len(u) : u[i] = s[i]
            /\ Len(u) < Len(s) => s[Len(u) + 1] = c
<1> DEFINE u == WithoutLast(s, c)
<1>1. CASE s # <<>> /\ Last(s) = c
  <2> DEFINE n == Len(s) - 1
  <2>1. n \in Nat /\ n <= Len(s) /\ n + 1 = Len(s)
    BY <1>1
  <2>2. u = SubSeq(s, 1, n) /\ s[Len(s)] = c
    BY <1>1 DEF WithoutLast, Front, Last
  <2> HIDE DEF n, u
  <2>3. 0 \in Nat /\ 0 <= n /\ 0 + 1 = 1 /\ n - 0 = n /\ \A j \in 1..n : 0 + j = j
    BY <2>1
  <2>4. LET v == SubSeq(s, 0 + 1, n)
        IN v \in Seq(S) /\ Len(v) = n - 0 /\ \A j \in 1..(n - 0) : v[j] = s[0 + j]
    BY <2>1, <2>3, Stretch
  <2>5. u \in Seq(S) /\ Len(u) = n /\ \A j \in 1..n : u[j] = s[j]
    BY <2>2, <2>3, <2>4
  <2> QED BY <2>1, <2>2, <2>5 DEF u
<1>2. CASE ~ (s # <<>> /\ Last(s) = c)
  <2>1. u = s
    BY <1>2 DEF WithoutLast
  <2> QED BY <2>1
<1> QED BY <1>1, <1>2

\* A line without its end starts as the line does, and what follows is the end.
LEMMA LineIs ==
  ASSUME NEW S, NEW s \in Seq(S), NEW k, Span(s, k) \in Seq(S)
  PROVE  LET span == Span(s, k)
             line == Line(s, k)
         IN /\ line \in Seq(S) /\ Len(line) <= Len(span) /\ \A i \in 1..Len(line) : line[i] = span[i]
            /\ Len(line) < Len(span) => span[Len(line) + 1] # "lo"
<1> DEFINE span == Span(s, k)
           most == WithoutLast(span, "nl")
           line == WithoutLast(most, "cr")
<1> HIDE DEF span
<1>1. span \in Seq(S)
  BY DEF span
<1>2. /\ most \in Seq(S) /\ Len(most) <= Len(span) /\ \A i \in 1..Len(most) : most[i] = span[i]
      /\ Len(most) < Len(span) => span[Len(most) + 1] = "nl"
  BY <1>1, WithoutLastIs
<1> HIDE DEF most
<1>3. /\ line \in Seq(S) /\ Len(line) <= Len(most) /\ \A i \in 1..Len(line) : line[i] = most[i]
      /\ Len(line) < Len(most) => most[Len(line) + 1] = "cr"
  BY <1>2, WithoutLastIs
<1>4. Line(s, k) = line
  BY DEF Line, most, span
<1> HIDE DEF line
<1>5. Len(span) \in Nat /\ Len(most) \in Nat /\ Len(line) \in Nat
  BY <1>1, <1>2, <1>3
<1>6. Len(line) <= Len(span) /\ \A i \in 1..Len(line) : line[i] = span[i]
  <2>1. \A i \in 1..Len(line) : i \in 1..Len(most)
    BY <1>3, <1>5
  <2> QED BY <1>2, <1>3, <1>5, <2>1
<1>7. Len(line) < Len(span) => span[Len(line) + 1] # "lo"
  <2>1. CASE Len(line) < Len(most)
    <3>1. Len(line) + 1 \in 1..Len(most)
      BY <1>5, <2>1
    <3> QED BY <1>2, <1>3, <2>1, <3>1
  <2>2. CASE Len(line) = Len(most)
    BY <1>2, <2>2
  <2> QED BY <1>3, <1>5, <2>1, <2>2
<1> QED BY <1>3, <1>4, <1>6, <1>7 DEF span

\* Where a place is taken to be: its line, its column, and the octet.
LineOf(s, pos) == IF pos.line > Len(Starts(s)) - 1 THEN Len(Starts(s)) - 1 ELSE pos.line
ColumnOf(s, pos) ==
    IF pos.line > Len(Starts(s)) - 1 \/ pos.col > Len(Line(s, LineOf(s, pos)))
    THEN Len(Line(s, LineOf(s, pos))) ELSE pos.col
Down(s, k, col) == IF Boundary(Line(s, k), col) THEN col ELSE col - 1

\* A column of a line is between the start and the end of the line, and where it
\* is taken to be no character is cut.
LEMMA ColumnApart ==
  ASSUME NEW S, NEW s \in Seq(S), Entire(s), s # <<>>, NEW k \in Nat, k + 1 <= Len(Starts(s)),
         NEW col \in Nat, col <= Len(Line(s, k))
  PROVE  LET o == Starts(s)[k + 1] + Down(s, k, col)
         IN /\ o \in Nat /\ Down(s, k, col) \in Nat /\ Down(s, k, col) \in {col, col - 1}
            /\ Starts(s)[k + 1] <= o /\ o <= LineEnd(s, k + 1) /\ LineEnd(s, k + 1) <= Len(s)
            /\ BetweenCharacters(s, o)
<1> DEFINE q == Starts(s)
           a == q[k + 1]
           e == LineEnd(s, k + 1)
           span == Span(s, k)
           line == Line(s, k)
           d == Down(s, k, col)
<1>1. Lists(q, LineStarts(s)) /\ q \in Seq(Nat) /\ Len(q) \in Nat
  BY StartsAre DEF Lists
<1>2. k + 1 \in 1..Len(q) /\ (k + 1) - 1 = k
  BY <1>1
<1>3. span = SubSeq(s, a + 1, e) /\ a \in Nat /\ e \in Nat /\ a < e /\ e <= Len(s)
  BY <1>2, SpanIs
<1>4. a \in LineStarts(s) /\ (k + 2 <= Len(q) => e \in LineStarts(s)) /\ (e = Len(s) \/ k + 2 <= Len(q))
  <2>1. \A i \in 1..Len(q) : q[i] \in LineStarts(s)
    <3> HIDE DEF q
    <3>1. DOMAIN q = 1..Len(q) /\ ToSet(q) = LineStarts(s)
      BY <1>1 DEF Lists
    <3> QED BY <3>1 DEF ToSet
  <2>2. e = IF (k + 1) + 1 <= Len(q) THEN q[(k + 1) + 1] ELSE Len(s)
    BY DEF LineEnd
  <2>3. (k + 1) + 1 = k + 2
    OBVIOUS
  <2> HIDE DEF q, e
  <2>4. k + 2 <= Len(q) => k + 2 \in 1..Len(q)
    BY <1>1
  <2> QED BY <1>2, <2>1, <2>2, <2>3, <2>4
<1>5. d = IF col >= Len(line) \/ line[col + 1] # "lo" THEN col ELSE col - 1
  BY DEF Down, Boundary
<1>6. Starts(s)[k + 1] = a /\ LineEnd(s, k + 1) = e /\ Down(s, k, col) = d /\ col <= Len(line)
  OBVIOUS
<1> HIDE DEF q, a, e, d, span, line
<1>7. span \in Seq(S) /\ Len(span) = e - a /\ \A i \in 1..(e - a) : span[i] = s[a + i]
  BY <1>3, Stretch
<1>8. /\ line \in Seq(S) /\ Len(line) <= Len(span) /\ \A i \in 1..Len(line) : line[i] = span[i]
      /\ Len(line) < Len(span) => span[Len(line) + 1] # "lo"
  BY <1>7, LineIs DEF line, span
<1>9. Len(s) \in Nat /\ DOMAIN s = 1..Len(s) /\ Len(line) \in Nat
  BY <1>8
\* No line starts inside a character.
<1>10. ASSUME NEW p \in LineStarts(s) PROVE p \in Nat /\ p < Len(s) /\ s[p + 1] # "lo"
  <2>1. p \in Nat /\ p < Len(s) /\ (p # 0 => s[p] = "nl")
    BY <1>9 DEF LineStarts, NewLines
  <2>2. p + 1 \in DOMAIN s /\ (p + 1) - 1 = p
    BY <1>9, <2>1
  <2>3. s[p + 1] = "lo" => p + 1 # 1 /\ s[p] = "hi"
    BY <2>2 DEF Entire
  <2> QED BY <2>1, <2>3
<1>11. CASE col = Len(line)
  <2>1. d = col
    BY <1>5, <1>9, <1>11
  <2>2. CASE Len(line) = Len(span)
    <3>1. a + d = e
      BY <1>3, <1>7, <1>11, <2>1, <2>2
    <3>2. BetweenCharacters(s, e)
      BY <1>4, <1>10 DEF BetweenCharacters
    <3> QED BY <1>3, <1>6, <2>1, <3>1, <3>2
  <2>3. CASE Len(line) < Len(span)
    <3>1. Len(line) + 1 \in 1..(e - a) /\ a + (Len(line) + 1) = (a + d) + 1
      BY <1>3, <1>7, <1>9, <1>11, <2>1, <2>3
    <3>2. s[(a + d) + 1] # "lo"
      BY <1>7, <1>8, <2>3, <3>1
    <3>3. a + d \in Nat /\ a <= a + d /\ a + d <= e
      BY <1>3, <1>9, <1>11, <2>1, <3>1
    <3> QED BY <1>3, <1>6, <2>1, <3>2, <3>3 DEF BetweenCharacters
  <2> QED BY <1>7, <1>8, <1>9, <2>2, <2>3
<1>12. CASE col < Len(line)
  <2>1. col + 1 \in 1..Len(line) /\ col + 1 \in 1..(e - a) /\ a + (col + 1) = (a + col) + 1
    BY <1>3, <1>7, <1>8, <1>9, <1>12
  <2>2. line[col + 1] = s[(a + col) + 1]
    BY <1>7, <1>8, <2>1
  <2>3. CASE line[col + 1] # "lo"
    <3>1. d = col
      BY <1>5, <2>3
    <3>2. a + d \in Nat /\ a <= a + d /\ a + d <= e
      BY <1>3, <2>1, <3>1
    <3> QED BY <1>3, <1>6, <2>2, <2>3, <3>1, <3>2 DEF BetweenCharacters
  <2>4. CASE line[col + 1] = "lo"
    <3>1. d = col - 1
      BY <1>5, <1>9, <1>12, <2>4
    <3>2. col # 0
      <4>1. a + 0 = a
        BY <1>3
      <4> QED BY <1>4, <1>10, <2>2, <2>4, <4>1
    <3> DEFINE p == (a + col) + 1
    <3>3. p \in DOMAIN s /\ p - 1 = (a + d) + 1
      BY <1>3, <1>9, <2>1, <3>1
    <3>4. s[p] = "lo"
      BY <2>2, <2>4
    <3> HIDE DEF p
    <3>6. s[p - 1] = "hi"
      BY <3>3, <3>4 DEF Entire
    <3>7. s[(a + d) + 1] = "hi"
      BY <3>3, <3>6
    <3>5. a + d \in Nat /\ d \in Nat /\ a <= a + d /\ a + d <= e
      BY <1>3, <2>1, <3>1, <3>2
    <3> QED BY <1>3, <1>6, <3>1, <3>5, <3>7 DEF BetweenCharacters
  <2> QED BY <2>3, <2>4
<1> QED BY <1>9, <1>6, <1>11, <1>12

Placed == [line : Nat, col : Nat]

LEMMA PlaceTaken ==
  ASSUME NEW S, NEW s \in Seq(S), s # <<>>, NEW pos \in Placed
  PROVE  LET k == LineOf(s, pos)
             col == ColumnOf(s, pos)
         IN /\ OffsetOf(s, pos) = Starts(s)[k + 1] + Down(s, k, col)
            /\ k \in Nat /\ k + 1 <= Len(Starts(s)) /\ col \in Nat /\ col <= Len(Line(s, k))
            /\ Len(Line(s, k)) \in Nat
<1> DEFINE q == Starts(s)
           k == LineOf(s, pos)
           length == Len(Line(s, k))
           col == ColumnOf(s, pos)
<1>1. q \in Seq(Nat) /\ Len(q) \in Nat /\ Len(q) >= 1 /\ q # <<>>
  <2>1. q \in Seq(Nat) /\ Len(q) >= 1
    BY StartsAre DEF Lists
  <2> HIDE DEF q
  <2> QED BY <2>1
<1>2. OffsetOf(s, pos) = q[k + 1] + Down(s, k, col)
  BY <1>1 DEF OffsetOf, LineOf, ColumnOf, Down
<1>3. k = IF pos.line > Len(q) - 1 THEN Len(q) - 1 ELSE pos.line
  BY DEF LineOf
<1>4. col = IF pos.line > Len(q) - 1 \/ pos.col > length THEN length ELSE pos.col
  BY DEF ColumnOf
<1>5. pos.line \in Nat /\ pos.col \in Nat
  BY DEF Placed
<1> HIDE DEF q, k, col
<1>6. k \in Nat /\ k + 1 <= Len(q)
  BY <1>1, <1>3, <1>5
<1>7. length \in Nat
  <2>1. k + 1 \in 1..Len(q) /\ (k + 1) - 1 = k
    BY <1>1, <1>6
  <2>2. /\ Span(s, k) = SubSeq(s, q[k + 1] + 1, LineEnd(s, k + 1))
        /\ q[k + 1] \in Nat /\ LineEnd(s, k + 1) \in Nat
        /\ q[k + 1] < LineEnd(s, k + 1) /\ LineEnd(s, k + 1) <= Len(s)
    BY <2>1, SpanIs DEF q
  <2>3. Span(s, k) \in Seq(S)
    BY <2>2, Stretch
  <2>4. Line(s, k) \in Seq(S)
    BY <2>3, LineIs
  <2> QED BY <2>4
<1> HIDE DEF length
<1>8. col \in Nat /\ col <= length
  BY <1>4, <1>5, <1>7
<1> QED BY <1>2, <1>6, <1>7, <1>8 DEF q, k, length, col

LEMMA OffsetIs ==
  ASSUME NEW S, NEW s \in Seq(S), Entire(s), NEW pos \in Placed
  PROVE  OffsetOf(s, pos) \in Nat /\ OffsetOf(s, pos) <= Len(s) /\ BetweenCharacters(s, OffsetOf(s, pos))
<1>1. CASE s = <<>>
  <2>1. Starts(s) = <<>> /\ Len(s) = 0
    BY <1>1 DEF Starts
  <2>2. OffsetOf(s, pos) = 0
    BY <2>1 DEF OffsetOf
  <2> QED BY <2>1, <2>2 DEF BetweenCharacters
<1>2. CASE s # <<>>
  <2> DEFINE k == LineOf(s, pos)
             col == ColumnOf(s, pos)
             o == OffsetOf(s, pos)
             e == LineEnd(s, k + 1)
             a == Starts(s)[k + 1]
  <2>1. /\ o = a + Down(s, k, col)
        /\ k \in Nat /\ k + 1 <= Len(Starts(s)) /\ col \in Nat /\ col <= Len(Line(s, k))
    BY <1>2, PlaceTaken
  <2> HIDE DEF k, col, o
  <2>2. /\ a + Down(s, k, col) \in Nat /\ a + Down(s, k, col) <= e /\ e <= Len(s)
        /\ BetweenCharacters(s, a + Down(s, k, col))
    BY <1>2, <2>1, ColumnApart
  <2>3. a \in Nat /\ e \in Nat
    <3>1. k + 1 \in 1..Len(Starts(s))
      <4>1. Starts(s) \in Seq(Nat)
        BY <1>2, StartsAre DEF Lists
      <4> QED BY <2>1, <4>1
    <3> QED BY <1>2, <3>1, SpanIs
  <2>4. o \in Nat /\ o <= Len(s) /\ BetweenCharacters(s, o)
    <3> HIDE DEF a, e
    <3>1. Len(s) \in Nat
      OBVIOUS
    <3> QED BY <2>1, <2>2, <2>3, <3>1
  <2> QED BY <2>4 DEF o
<1> QED BY <1>1, <1>2

LEMMA OffsetOfOrigin ==
  ASSUME NEW S, NEW s \in Seq(S), Entire(s)
  PROVE  OffsetOf(s, Origin) = 0
<1>1. CASE s = <<>>
  <2>1. Starts(s) = <<>>
    BY <1>1 DEF Starts
  <2> QED BY <2>1 DEF OffsetOf
<1>2. CASE s # <<>>
  <2>1. Origin \in Placed /\ Origin.line = 0 /\ Origin.col = 0
    BY DEF Origin, Placed
  <2> DEFINE k == LineOf(s, Origin)
             col == ColumnOf(s, Origin)
  <2>2. /\ OffsetOf(s, Origin) = Starts(s)[k + 1] + Down(s, k, col)
        /\ k \in Nat /\ k + 1 <= Len(Starts(s)) /\ col \in Nat /\ col <= Len(Line(s, k))
        /\ Len(Line(s, k)) \in Nat
    BY <1>2, <2>1, PlaceTaken
  <2>3. Len(Starts(s)) \in Nat /\ Starts(s)[1] = 0 /\ Len(Starts(s)) >= 1
    <3>1. Starts(s) \in Seq(Nat) /\ Starts(s)[1] = 0 /\ Len(Starts(s)) >= 1
      BY <1>2, StartsAre DEF Lists
    <3> QED BY <3>1
  <2>4. k = 0
    BY <2>1, <2>3 DEF LineOf
  <2>5. ~ (0 > Len(Starts(s)) - 1)
    BY <2>3
  <2>6. col = 0
    <3>1. ~ (0 > Len(Line(s, k)))
      BY <2>2
    <3> QED BY <2>1, <2>5, <3>1 DEF ColumnOf
  <2> HIDE DEF k, col
  <2>7. Down(s, k, col) \in Nat /\ Down(s, k, col) \in {col, col - 1}
    BY <1>2, <2>2, ColumnApart
  <2>8. Down(s, k, col) = 0
    BY <2>6, <2>7
  <2>9. Starts(s)[k + 1] = 0
    BY <2>3, <2>4
  <2> QED BY <2>2, <2>8, <2>9
<1> QED BY <1>1, <1>2

LEMMA LeastRise ==
  ASSUME NEW n \in Int, NEW u \in Nat, NEW v \in Nat,
         NEW k, k = IF u > n THEN n ELSE u, NEW l, l = IF v > n THEN n ELSE v
  PROVE  /\ u <= v => k < l \/ k = l
         /\ k = l /\ ~ (v > n) => ~ (u < v)
<1>1. k \in Int /\ l \in Int
  OBVIOUS
<1> QED BY <1>1

LEMMA OffsetsRise ==
  ASSUME NEW S, NEW s \in Seq(S), Entire(s), NEW x \in Placed, NEW y \in Placed, NotAfter(x, y)
  PROVE  OffsetOf(s, x) <= OffsetOf(s, y)
<1>1. CASE s = <<>>
  <2>1. Starts(s) = <<>>
    BY <1>1 DEF Starts
  <2> QED BY <2>1 DEF OffsetOf
<1>2. CASE s # <<>>
  <2> DEFINE q == Starts(s)
             k == LineOf(s, x)
             col == ColumnOf(s, x)
             l == LineOf(s, y)
             row == ColumnOf(s, y)
             d == Down(s, k, col)
             e == Down(s, l, row)
  <2>1. /\ OffsetOf(s, x) = q[k + 1] + d
        /\ k \in Nat /\ k + 1 <= Len(q) /\ col \in Nat /\ col <= Len(Line(s, k)) /\ Len(Line(s, k)) \in Nat
    BY <1>2, PlaceTaken
  <2>2. /\ OffsetOf(s, y) = q[l + 1] + e
        /\ l \in Nat /\ l + 1 <= Len(q) /\ row \in Nat /\ row <= Len(Line(s, l)) /\ Len(Line(s, l)) \in Nat
    BY <1>2, PlaceTaken
  <2>3. /\ q \in Seq(Nat) /\ Len(q) \in Nat /\ Ascending(q) /\ DOMAIN q = 1..Len(q)
    <3>1. q \in Seq(Nat) /\ Ascending(q)
      BY <1>2, StartsAre DEF Lists
    <3> HIDE DEF q
    <3> QED BY <3>1
  <2>4. k = IF x.line > Len(q) - 1 THEN Len(q) - 1 ELSE x.line
    BY DEF LineOf
  <2>5. l = IF y.line > Len(q) - 1 THEN Len(q) - 1 ELSE y.line
    BY DEF LineOf
  <2>6. x.line \in Nat /\ x.col \in Nat /\ y.line \in Nat /\ y.col \in Nat
    BY DEF Placed
  <2>7. col = IF x.line > Len(q) - 1 \/ x.col > Len(Line(s, k)) THEN Len(Line(s, k)) ELSE x.col
    BY DEF ColumnOf
  <2>8. row = IF y.line > Len(q) - 1 \/ y.col > Len(Line(s, l)) THEN Len(Line(s, l)) ELSE y.col
    BY DEF ColumnOf
  <2>9. x.line < y.line \/ (x.line = y.line /\ x.col <= y.col)
    BY DEF NotAfter
  <2> HIDE DEF col, row, k, l
  <2>10. /\ q[k + 1] + d \in Nat /\ d \in Nat /\ d \in {col, col - 1} /\ q[k + 1] + d <= LineEnd(s, k + 1)
    BY <1>2, <2>1, ColumnApart
  <2>11. /\ q[l + 1] + e \in Nat /\ e \in Nat /\ e \in {row, row - 1}
    BY <1>2, <2>2, ColumnApart
  <2>12. k + 1 < Len(q) => LineEnd(s, k + 1) = q[(k + 1) + 1]
    BY <2>1, <2>3 DEF LineEnd
  <2>13. k = l /\ col = row => d = e
    OBVIOUS
  <2> HIDE DEF q, d, e
  <2>14. k + 1 \in 1..Len(q) /\ l + 1 \in 1..Len(q)
    BY <2>1, <2>2, <2>3
  <2>15. q[k + 1] \in Nat /\ q[l + 1] \in Nat
    BY <2>3, <2>14
  <2> DEFINE n == Len(q) - 1
             u == x.line
             v == y.line
  <2> HIDE DEF n, u, v
  <2>16. /\ u <= v => k < l \/ k = l
         /\ k = l /\ ~ (v > n) => ~ (u < v)
    <3>1. n \in Int /\ u \in Nat /\ v \in Nat
      BY <2>3, <2>6 DEF n, u, v
    <3>2. k = (IF u > n THEN n ELSE u) /\ l = (IF v > n THEN n ELSE v)
      BY <2>4, <2>5 DEF n, u, v
    <3> QED BY <3>1, <3>2, LeastRise
  <2>19. u <= v
    BY <2>6, <2>9 DEF u, v
  <2>17. CASE k = l
    <3>1. col <= row
      <4>1. CASE y.line > Len(q) - 1
        BY <2>1, <2>8, <2>17, <4>1
      <4>2. CASE ~ (y.line > Len(q) - 1)
        <5>1. ~ (u < v)
          BY <2>16, <2>17, <4>2 DEF n, v
        <5>2. x.col <= y.col /\ x.line = y.line
          BY <2>9, <5>1 DEF u, v
        <5> DEFINE m == Len(Line(s, k))
        <5>3. m = Len(Line(s, l)) /\ m \in Nat
          BY <2>1, <2>17
        <5>4. col = (IF x.col > m THEN m ELSE x.col) /\ row = (IF y.col > m THEN m ELSE y.col)
          BY <2>7, <2>8, <4>2, <5>2, <5>3
        <5> HIDE DEF m
        <5> QED BY <2>6, <5>2, <5>3, <5>4
      <4> QED BY <4>1, <4>2
    <3>2. d <= e
      BY <2>1, <2>2, <2>10, <2>11, <2>13, <2>17, <3>1
    <3> QED BY <2>1, <2>2, <2>10, <2>11, <2>15, <2>17, <3>2
  <2>18. CASE k < l
    <3>1. k + 1 < Len(q) /\ (k + 1) + 1 \in 1..Len(q)
      BY <2>1, <2>2, <2>3, <2>18
    <3>2. q[(k + 1) + 1] <= q[l + 1] /\ q[(k + 1) + 1] \in Nat
      <4>1. (k + 1) + 1 = l + 1 \/ (k + 1) + 1 < l + 1
        BY <2>1, <2>2, <2>18
      <4>2. q[(k + 1) + 1] \in Nat
        BY <2>3, <3>1
      <4>3. (k + 1) + 1 < l + 1 => q[(k + 1) + 1] < q[l + 1]
        BY <2>3, <2>14, <3>1 DEF Ascending
      <4>4. (k + 1) + 1 = l + 1 => q[(k + 1) + 1] = q[l + 1]
        OBVIOUS
      <4> QED BY <2>15, <4>1, <4>2, <4>3, <4>4
    <3> DEFINE f == LineEnd(s, k + 1)
               g == q[(k + 1) + 1]
               h == q[l + 1]
               o == q[k + 1] + d
    <3>3. f = g /\ o <= f
      BY <2>10, <2>12, <3>1
    <3>4. g \in Nat /\ g <= h /\ o \in Nat /\ h \in Nat /\ e \in Nat
      BY <2>10, <2>11, <2>15, <3>2
    <3>5. OffsetOf(s, x) = o /\ OffsetOf(s, y) = h + e
      BY <2>1, <2>2
    <3> HIDE DEF f, g, h, o
    <3> QED BY <3>3, <3>4, <3>5
  <2> QED BY <2>16, <2>17, <2>18, <2>19
<1> QED BY <1>1, <1>2

LEMMA SlicesJoin ==
  ASSUME NEW S, NEW s \in Seq(S), Entire(s)
  PROVE  SelectionsJoin(s)
<1>1. SUFFICES ASSUME NEW a \in Places, NEW b \in Places, NotAfter(a, b)
               PROVE  LET selected == Slice(s, a, b)
                      IN /\ Slice(s, Origin, a) \o selected = Slice(s, b, Origin)
                         /\ WholeUntil(selected) = Len(selected)
  BY DEF SelectionsJoin
<1>2. a \in Placed /\ b \in Placed
  BY ViewsAssumption DEF Places, Placed
<1> DEFINE x == OffsetOf(s, a)
           y == OffsetOf(s, b)
           z == OffsetOf(s, Origin)
<1>3. /\ x \in Nat /\ x <= Len(s) /\ BetweenCharacters(s, x)
      /\ y \in Nat /\ y <= Len(s) /\ BetweenCharacters(s, y)
  BY <1>2, OffsetIs
<1>4. x <= y
  BY <1>1, <1>2, OffsetsRise
<1>5. z = 0
  BY OffsetOfOrigin
<1>6. /\ Slice(s, a, b) = (IF x <= y THEN SubSeq(s, x + 1, y) ELSE SubSeq(s, y + 1, x))
      /\ Slice(s, Origin, a) = (IF z <= x THEN SubSeq(s, z + 1, x) ELSE SubSeq(s, x + 1, z))
      /\ Slice(s, b, Origin) = (IF y <= z THEN SubSeq(s, y + 1, z) ELSE SubSeq(s, z + 1, y))
  BY DEF Slice
<1> HIDE DEF x, y, z
<1>7. Slice(s, a, b) = SubSeq(s, x + 1, y)
  BY <1>4, <1>6
<1>8. Slice(s, Origin, a) = SubSeq(s, 0 + 1, x)
  BY <1>3, <1>5, <1>6
<1>9. Slice(s, b, Origin) = SubSeq(s, 0 + 1, y)
  <2>1. CASE y <= z
    <3>1. y = 0
      BY <1>3, <1>5, <2>1
    <3> QED BY <1>5, <1>6, <3>1
  <2>2. CASE ~ (y <= z)
    BY <1>5, <1>6, <2>2
  <2> QED BY <2>1, <2>2
<1>10. SubSeq(s, 0 + 1, x) \o SubSeq(s, x + 1, y) = SubSeq(s, 0 + 1, y)
  <2>1. 0 \in Nat /\ 0 <= x
    BY <1>3
  <2> QED BY <1>3, <1>4, <2>1, StretchesJoin
<1>11. WholeUntil(SubSeq(s, x + 1, y)) = Len(SubSeq(s, x + 1, y))
  <2>1. Entire(SubSeq(s, x + 1, y))
    BY <1>3, <1>4, EntireStretch
  <2>2. SubSeq(s, x + 1, y) \in Seq(S)
    BY <1>3, <1>4, Stretch
  <2> QED BY <2>1, <2>2, EntireIsWhole
<1> QED BY <1>7, <1>8, <1>9, <1>10, <1>11

-----------------------------------------------------------------------------
(* The head of a text *)

LEMMA FirstOnes ==
  ASSUME NEW S, NEW s \in Seq(S), NEW n \in Nat, n <= Len(s)
  PROVE  LET u == SubSeq(s, 1, n)
         IN u \in Seq(S) /\ Len(u) = n /\ DOMAIN u = 1..n /\ \A i \in 1..n : u[i] = s[i]
<1> DEFINE u == SubSeq(s, 1, n)
           v == SubSeq(s, 0 + 1, n)
<1>1. 0 \in Nat /\ 0 <= n /\ n - 0 = n /\ \A i \in 1..n : 0 + i = i
  OBVIOUS
<1>2. v \in Seq(S) /\ Len(v) = n - 0 /\ DOMAIN v = 1..(n - 0) /\ \A i \in 1..(n - 0) : v[i] = s[0 + i]
  BY <1>1, Stretch
<1>3. u = v
  OBVIOUS
<1> HIDE DEF u, v
<1>4. u \in Seq(S) /\ Len(u) = n /\ DOMAIN u = 1..n /\ \A i \in 1..n : u[i] = s[i]
  BY <1>1, <1>2, <1>3
<1> QED BY <1>4 DEF u

LEMMA FirstOfFirst ==
  ASSUME NEW S, NEW s \in Seq(S), NEW n \in Nat, n <= Len(s), NEW m \in Nat, m <= n
  PROVE  SubSeq(SubSeq(s, 1, n), 1, m) = SubSeq(s, 1, m)
<1> DEFINE u == SubSeq(s, 1, n)
           v == SubSeq(u, 1, m)
           w == SubSeq(s, 1, m)
<1>1. u \in Seq(S) /\ Len(u) = n /\ \A i \in 1..n : u[i] = s[i]
  BY FirstOnes
<1> HIDE DEF u
<1>2. v \in Seq(S) /\ Len(v) = m /\ \A i \in 1..m : v[i] = u[i]
  BY <1>1, FirstOnes
<1>3. w \in Seq(S) /\ Len(w) = m /\ \A i \in 1..m : w[i] = s[i]
  <2>1. m <= Len(s)
    OBVIOUS
  <2> QED BY <2>1, FirstOnes
<1> HIDE DEF v, w
<1>4. \A i \in 1..Len(v) : v[i] = w[i]
  BY <1>1, <1>2, <1>3
<1>5. v = w
  BY <1>2, <1>3, <1>4, SeqEqual
<1> QED BY <1>5 DEF u, v, w

LEMMA EntireFirst ==
  ASSUME NEW S, NEW s \in Seq(S), Entire(s), NEW n \in Nat, n <= Len(s), BetweenCharacters(s, n)
  PROVE  Entire(SubSeq(s, 1, n))
<1>1. BetweenCharacters(s, 0)
  <2>1. SUFFICES ASSUME 0 # Len(s), s[0 + 1] = "lo" PROVE FALSE
    BY DEF BetweenCharacters
  <2>2. 1 \in DOMAIN s /\ s[1] = "lo"
    BY <2>1
  <2> QED BY <2>2 DEF Entire
<1>2. 0 \in Nat /\ 0 <= n /\ 0 + 1 = 1
  OBVIOUS
<1>3. Entire(SubSeq(s, 0 + 1, n))
  BY <1>1, <1>2, EntireStretch
<1> QED BY <1>2, <1>3

\* What is left of the start of a text when a character cut at its end is dropped.
LEMMA TrimmedFirst ==
  ASSUME NEW S, NEW s \in Seq(S), Entire(s), NEW n \in Nat, n <= Len(s)
  PROVE  LET u == SubSeq(s, 1, n)
         IN /\ WholeUntil(u) = Len(u) \/ TrimPartial(u) # u
            /\ \E h \in Nat : h <= n /\ TrimPartial(u) = SubSeq(s, 1, h) /\ Entire(SubSeq(s, 1, h))
<1> DEFINE u == SubSeq(s, 1, n)
<1>1. u \in Seq(S) /\ Len(u) = n /\ DOMAIN u = 1..n /\ \A i \in 1..n : u[i] = s[i]
  BY FirstOnes
<1>2. CASE BetweenCharacters(s, n)
  <2>1. Entire(u)
    BY <1>2, EntireFirst
  <2> HIDE DEF u
  <2>2. WholeUntil(u) = Len(u)
    BY <1>1, <2>1, EntireIsWhole
  <2>3. WholeUntil(u) # Len(u) - 1
    BY <1>1, <2>2
  <2>4. TrimPartial(u) = u
    BY <2>3 DEF TrimPartial
  <2> QED BY <2>1, <2>2, <2>4 DEF u
<1>3. CASE ~ BetweenCharacters(s, n)
  <2>1. n # Len(s) /\ s[n + 1] = "lo"
    BY <1>3 DEF BetweenCharacters
  <2>2. n # 0 /\ s[n] = "hi"
    <3>1. n + 1 \in DOMAIN s /\ (n + 1) - 1 = n
      BY <2>1
    <3>2. n + 1 # 1 /\ s[(n + 1) - 1] = "hi"
      BY <2>1, <3>1 DEF Entire
    <3> QED BY <3>1, <3>2
  <2> DEFINE wrong == {i \in DOMAIN u : \/ u[i] = "hi" /\ (i = Len(u) \/ u[i + 1] # "lo")
                                        \/ u[i] = "lo" /\ (i = 1 \/ u[i - 1] # "hi")}
             h == n - 1
  <2> HIDE DEF u
  <2>3. n \in wrong
    BY <1>1, <2>2
  <2>4. ASSUME NEW i \in wrong, i # n PROVE FALSE
    <3>1. i \in 1..n /\ i \in DOMAIN s /\ u[i] = s[i]
      BY <1>1, <2>4
    <3>2. CASE u[i] = "hi" /\ (i = Len(u) \/ u[i + 1] # "lo")
      <4>1. i + 1 \in 1..n
        BY <2>4, <3>1
      <4>2. s[i + 1] = "lo"
        BY <3>1, <3>2 DEF Entire
      <4> QED BY <1>1, <2>4, <3>2, <4>1, <4>2
    <3>3. CASE u[i] = "lo" /\ (i = 1 \/ u[i - 1] # "hi")
      <4>1. i # 1 /\ s[i - 1] = "hi"
        BY <3>1, <3>3 DEF Entire
      <4>2. i - 1 \in 1..n
        BY <3>1, <4>1
      <4> QED BY <1>1, <3>3, <4>1, <4>2
    <3> QED BY <2>4, <3>2, <3>3
  <2>5. wrong = {n}
    BY <2>3, <2>4
  <2>6. WholeUntil(u) = IF wrong = {} THEN Len(u) ELSE (CHOOSE i \in wrong : \A j \in wrong : i <= j) - 1
    BY DEF WholeUntil
  <2> HIDE DEF wrong
  <2>7. WholeUntil(u) = Len(u) - 1 /\ Last(u) = "hi"
    <3>1. (CHOOSE i \in wrong : \A j \in wrong : i <= j) = n
      BY <2>5
    <3>2. wrong # {}
      BY <2>5
    <3>3. WholeUntil(u) = n - 1
      BY <2>6, <3>1, <3>2
    <3>4. n \in 1..n
      BY <2>2
    <3> QED BY <1>1, <2>2, <3>3, <3>4 DEF Last
  <2>8. h \in Nat /\ h <= n /\ h <= Len(s) /\ h + 1 = n /\ h # n
    BY <2>2
  <2>9. TrimPartial(u) = SubSeq(u, 1, h)
    BY <1>1, <2>7 DEF TrimPartial, Front
  <2>10. SubSeq(u, 1, h) = SubSeq(s, 1, h)
    <3> HIDE DEF h
    <3> QED BY <2>8, FirstOfFirst DEF u
  <2> HIDE DEF h
  <2>11. Len(SubSeq(s, 1, h)) = h
    BY <2>8, FirstOnes
  <2>12. TrimPartial(u) # u
    BY <1>1, <2>8, <2>9, <2>10, <2>11
  <2>13. Entire(SubSeq(s, 1, h))
    <3>1. BetweenCharacters(s, h)
      BY <2>2, <2>8 DEF BetweenCharacters
    <3> QED BY <2>8, <3>1, EntireFirst
  <2> QED BY <2>8, <2>9, <2>10, <2>12, <2>13 DEF u
<1> QED BY <1>2, <1>3

LEMMA FlattenSingles ==
  ASSUME NEW S, NEW s \in Seq(S)
  PROVE  FlattenSeq([i \in DOMAIN s |-> <<s[i]>>]) = s
<1> DEFINE Singles(r) == [i \in DOMAIN r |-> <<r[i]>>]
           Good == {r \in Seq(S) : Singles(r) \in Seq(Seq(S)) /\ FlattenSeq(Singles(r)) = r}
<1>1. <<>> \in Good
  <2>1. Singles(<<>>) = <<>> /\ <<>> \in Seq(Seq(S)) /\ <<>> \in Seq(S)
    OBVIOUS
  <2> HIDE DEF Singles
  <2> QED BY <2>1, FlattenEmpty
<1>2. ASSUME NEW r \in Seq(S), NEW x \in S, r \in Good PROVE Append(r, x) \in Good
  <2> DEFINE n == Len(r)
             t == Append(r, x)
             u == Singles(r)
             v == Singles(t)
             w == Append(u, <<x>>)
  <2>1. n \in Nat /\ DOMAIN r = 1..n /\ t \in Seq(S) /\ DOMAIN t = 1..(n + 1)
        /\ \A i \in 1..(n + 1) : t[i] = IF i <= n THEN r[i] ELSE x
    OBVIOUS
  <2>2. u \in Seq(Seq(S)) /\ FlattenSeq(u) = r
    BY <1>2
  <2> HIDE DEF n, t
  <2>3. DOMAIN u = 1..n /\ \A i \in 1..n : u[i] = <<r[i]>>
    BY <2>1
  <2>4. DOMAIN v = 1..(n + 1) /\ \A i \in 1..(n + 1) : v[i] = <<t[i]>>
    BY <2>1
  <2>5. <<x>> \in Seq(S)
    OBVIOUS
  <2>6. v = [i \in 1..(n + 1) |-> v[i]]
    BY <2>1
  <2> HIDE DEF u, v
  <2>7. Len(u) = n
    BY <2>1, <2>2, <2>3
  <2>8. w \in Seq(Seq(S)) /\ DOMAIN w = 1..(n + 1) /\ \A i \in 1..(n + 1) : w[i] = IF i <= n THEN u[i] ELSE <<x>>
    <3> DEFINE one == <<x>>
    <3> HIDE DEF one
    <3>1. one \in Seq(S)
      BY <2>5 DEF one
    <3>2. /\ Append(u, one) \in Seq(Seq(S)) /\ DOMAIN Append(u, one) = 1..(n + 1)
          /\ \A i \in 1..(n + 1) : Append(u, one)[i] = IF i <= n THEN u[i] ELSE one
      BY <2>1, <2>2, <2>7, <3>1
    <3> QED BY <3>2 DEF one
  <2> HIDE DEF w
  <2>9. \A i \in 1..(n + 1) : v[i] = w[i]
    <3>1. \A i \in 1..(n + 1) : i <= n => i \in 1..n
      BY <2>1
    <3> QED BY <2>1, <2>3, <2>4, <2>8, <3>1
  <2>10. w = [i \in 1..(n + 1) |-> w[i]]
    BY <2>8
  <2>11. v = w
    BY <2>6, <2>9, <2>10
  <2>12. FlattenSeq(w) = r \o <<x>>
    BY <2>2, <2>5, FlattenAppend DEF w
  <2>13. r \o <<x>> = t
    BY AppendIsConcat DEF t
  <2>14. Singles(t) \in Seq(Seq(S)) /\ FlattenSeq(Singles(t)) = t
    BY <2>8, <2>11, <2>12, <2>13 DEF v
  <2> HIDE DEF Singles
  <2> QED BY <2>1, <2>14 DEF t
<1> HIDE DEF Good
<1>3. s \in Good
  BY <1>1, <1>2, AllSequences
<1> QED BY <1>3 DEF Good

LEMMA LossyKeeps ==
  ASSUME NEW S, NEW s \in Seq(S), Entire(s)
  PROVE  Lossy(s) = s
<1> DEFINE Shown(i) ==
             CASE s[i] = "hi" /\ (i = Len(s) \/ s[i + 1] # "lo") -> <<"bad">>
               [] s[i] = "lo" /\ (i = 1 \/ s[i - 1] # "hi") -> <<"bad">>
               [] OTHER -> <<s[i]>>
<1>1. ASSUME NEW i \in DOMAIN s PROVE Shown(i) = <<s[i]>>
  <2>1. ~ (s[i] = "hi" /\ (i = Len(s) \/ s[i + 1] # "lo"))
    <3>1. Len(s) + 1 \notin DOMAIN s
      OBVIOUS
    <3> QED BY <3>1 DEF Entire
  <2>2. ~ (s[i] = "lo" /\ (i = 1 \/ s[i - 1] # "hi"))
    BY DEF Entire
  <2> QED BY <2>1, <2>2
<1>2. Lossy(s) = FlattenSeq([i \in DOMAIN s |-> Shown(i)])
  BY DEF Lossy
<1> HIDE DEF Shown
<1>3. [i \in DOMAIN s |-> Shown(i)] = [i \in DOMAIN s |-> <<s[i]>>]
  BY <1>1
<1> QED BY <1>2, <1>3, FlattenSingles

LEMMA HeadKept ==
  ASSUME NEW S, "NUL" \notin S, NEW s \in Seq(S), Entire(s)
  PROVE  HeadIsText(s)
<1>1. SUFFICES ASSUME NEW n \in 0..Len(s)
               PROVE  LET view == View([type |-> "none", bytes |-> Before(s, n + 1), spilled |-> TRUE])
                      IN view.kind # "Binary" /\ IsPrefix(view.raw.text, s)
  BY DEF HeadIsText
<1> DEFINE bytes == Before(s, n + 1)
           body == [type |-> "none", bytes |-> bytes, spilled |-> TRUE]
           m == IF n < SniffLen THEN n ELSE SniffLen
           k == IF n < HeadBytes THEN n ELSE HeadBytes
           seen == Before(bytes, 1 + m)
           head == Before(bytes, 1 + k)
<1>2. /\ n \in Nat /\ n <= Len(s) /\ (n + 1) - 1 = n
      /\ m \in Nat /\ m <= n /\ m <= Len(s) /\ (1 + m) - 1 = m
      /\ k \in Nat /\ k <= n /\ k <= Len(s) /\ (1 + k) - 1 = k
  BY ViewsAssumption
<1>3. bytes = SubSeq(s, 1, n)
  BY <1>2 DEF Before
<1>4. Len(bytes) = n
  BY <1>2, <1>3, FirstOnes
<1> HIDE DEF bytes
<1>5. seen = SubSeq(s, 1, m) /\ head = SubSeq(s, 1, k)
  <2> HIDE DEF m, k
  <2>1. SubSeq(SubSeq(s, 1, n), 1, m) = SubSeq(s, 1, m) /\ SubSeq(SubSeq(s, 1, n), 1, k) = SubSeq(s, 1, k)
    BY <1>2, FirstOfFirst
  <2> QED BY <1>2, <1>3, <2>1 DEF Before
<1>6. ~ Has(seen, "NUL") /\ (WholeUntil(seen) = Len(seen) \/ TrimPartial(seen) # seen)
  <2> HIDE DEF m, seen
  <2>1. seen \in Seq(S)
    BY <1>2, <1>5, FirstOnes
  <2>2. ~ Has(seen, "NUL")
    BY <2>1 DEF Has
  <2>3. WholeUntil(seen) = Len(seen) \/ TrimPartial(seen) # seen
    BY <1>2, <1>5, TrimmedFirst
  <2> QED BY <2>2, <2>3
<1>7. Sniff(bytes) # "Binary"
  <2> DEFINE first == SelectInSeq(seen, LAMBDA c : c \notin White)
             cut == WholeUntil(seen) = Len(seen) \/ TrimPartial(seen) # seen
  <2>1. Sniff(bytes) =
          CASE seen = <<>> -> "Text"
            [] seen # <<>> /\ (Has(seen, "NUL") \/ ~cut) -> "Binary"
            [] OTHER -> IF first = 0 THEN "Text"
                        ELSE IF seen[first] \in DOMAIN Opened THEN "Json"
                        ELSE IF seen[first] # "<" THEN "Text"
                        ELSE IF Has(seen, "html") THEN "Html" ELSE "Xml"
    BY <1>4, Zenon DEF Sniff
  <2>2. cut /\ ~ Has(seen, "NUL")
    BY <1>6
  <2> HIDE DEF seen, first, cut
  <2> QED BY <2>1, <2>2
<1> DEFINE kind == Detect("none", bytes)
           text == Lossy(TrimPartial(head))
<1>8. kind # "Binary"
  BY <1>7 DEF Detect, Declares
<1>9. View(body).kind = kind /\ View(body).raw.text = text
  <2>1. body.type = "none" /\ body.bytes = bytes /\ body.spilled = TRUE
    OBVIOUS
  <2> HIDE DEF body, kind, text
  <2> QED BY <1>4, <1>8, <2>1 DEF View, Doc, kind, text
<1>10. IsPrefix(text, s)
  <2> HIDE DEF k, head
  <2>1. PICK h \in Nat : h <= k /\ TrimPartial(head) = SubSeq(s, 1, h) /\ Entire(SubSeq(s, 1, h))
    BY <1>2, <1>5, TrimmedFirst
  <2>2. h <= Len(s)
    BY <1>2, <2>1
  <2>3. SubSeq(s, 1, h) \in Seq(S) /\ Len(SubSeq(s, 1, h)) = h
    BY <2>2, FirstOnes
  <2>4. text = SubSeq(s, 1, h)
    BY <2>1, <2>3, LossyKeeps
  <2> HIDE DEF text
  <2>5. SubSeq(text, 1, h) = text
    BY <2>3, <2>4, SubSeqFull
  <2> QED BY <2>2, <2>3, <2>4, <2>5 DEF IsPrefix
<1> QED BY <1>8, <1>9, <1>10 DEF bytes, body

-----------------------------------------------------------------------------
(* A text is whole at any time *)

TextOctets == Ascii \cup {"hi", "lo"}

TextInv ==
    /\ content \in Seq(TextOctets)
    /\ Entire(content)
    /\ alphabet \subseteq Characters

LEMMA TextStarts == ContentInit => TextInv
<1> SUFFICES ASSUME ContentInit PROVE TextInv
  OBVIOUS
<1>1. <<>> \in Seq(TextOctets) /\ DOMAIN <<>> = {}
  OBVIOUS
<1> QED BY <1>1, ViewsAssumption DEF ContentInit, TextInv, Entire

LEMMA CharacterAdded ==
  ASSUME NEW s \in Seq(TextOctets), Entire(s), NEW c \in Characters
  PROVE  s \o c \in Seq(TextOctets) /\ Entire(s \o c)
<1>1. "hi" # "lo" /\ "hi" \notin Ascii /\ "lo" \notin Ascii
  BY ViewsAssumption
<1>2. c \in Seq(TextOctets) /\ Entire(c)
  <2>1. CASE c = <<"hi", "lo">>
    BY <2>1 DEF Entire, TextOctets
  <2>2. CASE \E x \in Ascii : c = <<x>>
    BY <1>1, <2>2 DEF Entire, TextOctets
  <2> QED BY <2>1, <2>2 DEF Characters
<1> DEFINE t == s \o c
           n == Len(s)
<1>3. /\ t \in Seq(TextOctets) /\ Len(t) = n + Len(c) /\ n \in Nat /\ Len(c) \in Nat
      /\ \A i \in 1..(n + Len(c)) : t[i] = IF i <= n THEN s[i] ELSE c[i - n]
  BY <1>2, ConcatProperties
<1> HIDE DEF t
<1>4. DOMAIN t = 1..(n + Len(c)) /\ DOMAIN s = 1..n /\ DOMAIN c = 1..Len(c)
  BY <1>2, <1>3
<1> HIDE DEF n
<1>5. ASSUME NEW i \in DOMAIN t
      PROVE  /\ t[i] = "hi" => i + 1 \in DOMAIN t /\ t[i + 1] = "lo"
             /\ t[i] = "lo" => i # 1 /\ t[i - 1] = "hi"
  <2>1. CASE i <= n
    <3>1. i \in DOMAIN s /\ t[i] = s[i]
      BY <1>3, <1>4, <2>1
    <3>2. i + 1 \in DOMAIN s => i + 1 \in DOMAIN t /\ t[i + 1] = s[i + 1]
      BY <1>3, <1>4, <2>1
    <3>3. i # 1 => t[i - 1] = s[i - 1]
      BY <1>3, <1>4, <2>1
    <3> QED BY <3>1, <3>2, <3>3 DEF Entire
  <2>2. CASE ~ (i <= n)
    <3> DEFINE j == i - n
    <3>1. j \in DOMAIN c /\ t[i] = c[j]
      BY <1>3, <1>4, <2>2
    <3>2. j + 1 \in DOMAIN c => i + 1 \in DOMAIN t /\ t[i + 1] = c[j + 1]
      <4>1. SUFFICES ASSUME j + 1 \in DOMAIN c PROVE i + 1 \in DOMAIN t /\ t[i + 1] = c[j + 1]
        OBVIOUS
      <4>2. i + 1 \in 1..(n + Len(c)) /\ ~ (i + 1 <= n) /\ (i + 1) - n = j + 1
        BY <1>3, <1>4, <2>2, <4>1
      <4> QED BY <1>3, <1>4, <4>2
    <3>3. j # 1 => i # 1 /\ t[i - 1] = c[j - 1]
      <4>1. SUFFICES ASSUME j # 1 PROVE i # 1 /\ t[i - 1] = c[j - 1]
        OBVIOUS
      <4>2. i - 1 \in 1..(n + Len(c)) /\ ~ (i - 1 <= n) /\ (i - 1) - n = j - 1 /\ i # 1
        BY <1>3, <1>4, <2>2, <3>1, <4>1
      <4> QED BY <1>3, <4>2
    <3> HIDE DEF j
    <3>4. /\ c[j] = "hi" => j + 1 \in DOMAIN c /\ c[j + 1] = "lo"
          /\ c[j] = "lo" => j # 1 /\ c[j - 1] = "hi"
      BY <1>2, <3>1 DEF Entire
    <3> QED BY <3>1, <3>2, <3>3, <3>4
  <2> QED BY <2>1, <2>2
<1>6. Entire(t)
  BY <1>5 DEF Entire
<1> QED BY <1>3, <1>6 DEF t

LEMMA TextStep == TextInv /\ [WriteCharacter]_contentVars => TextInv'
<1> SUFFICES ASSUME TextInv, [WriteCharacter]_contentVars PROVE TextInv'
  OBVIOUS
<1>1. CASE WriteCharacter
  <2>1. PICK c \in alphabet : content' = content \o c
    BY <1>1 DEF WriteCharacter
  <2>2. c \in Characters /\ alphabet' = alphabet
    BY <1>1 DEF TextInv, WriteCharacter
  <2>3. content \o c \in Seq(TextOctets) /\ Entire(content \o c)
    BY <2>2, CharacterAdded DEF TextInv
  <2> QED BY <2>1, <2>2, <2>3 DEF TextInv, Entire
<1>2. CASE UNCHANGED contentVars
  BY <1>2 DEF TextInv, contentVars, Entire
<1> QED BY <1>1, <1>2

LEMMA TextsWholeNow == TextInv => TextsStayWhole
<1> SUFFICES ASSUME TextInv PROVE TextsStayWhole
  OBVIOUS
<1>1. content \in Seq(TextOctets) /\ Entire(content)
  BY DEF TextInv
<1>2. "NUL" \notin TextOctets
  BY ViewsAssumption DEF TextOctets
<1>3. LinesJoin(content)
  BY <1>1, LinesKept
<1>4. SelectionsJoin(content)
  BY <1>1, SlicesJoin
<1>5. HeadIsText(content)
  BY <1>1, <1>2, HeadKept
<1>6. Squeezed(Pretty(content)) = Squeezed(content)
  BY <1>1, LayoutKeeps
<1> QED BY <1>3, <1>4, <1>5, <1>6 DEF TextsStayWhole

\* Whatever text a body is: its lines put together are the body, selections of it
\* join and cut no character, the head that is shown of it is its start, and the
\* layout of JSON changes nothing but white space outside of quotes
\* (body/line_index.rs, body/text.rs, detect.rs, body/pretty.rs).
THEOREM TextsAreWhole == ContentSpec => []TextsStayWhole
<1>1. ContentSpec => []TextInv
  BY TextStarts, TextStep, PTL DEF ContentSpec
<1> QED BY <1>1, TextsWholeNow, PTL
=============================================================================
