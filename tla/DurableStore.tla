---------------------------- MODULE DurableStore ----------------------------
(***************************************************************************)
(* What the persistence layer of Germal promises to the rest of the        *)
(* application, with no queue, no thread and no clock.                     *)
(*                                                                         *)
(* Callers hand over operations (write a file, delete a file); operation   *)
(* number i is the i-th one handed over.  The store settles operations in  *)
(* its own time: it may skip an operation on a path when a newer one on    *)
(* the same path is already known (coalescing), an attempt may fail, but   *)
(* on each path attempts only move forward.  A flush that answers "ok"     *)
(* answers for everything handed over before it was called.                *)
(*                                                                         *)
(* StoreWriter implements this specification.                              *)
(***************************************************************************)
EXTENDS Naturals

CONSTANTS Path,   \* files of the data directory
          Call    \* concurrent calls of flush

VARIABLES ops,    \* number of operations handed over so far
          latest, \* latest[p]: last operation handed over on p and not lost
          tried,  \* tried[p]: last operation the store has attempted on p
          disk,   \* disk[p]: operation whose effect the file system shows
          call,   \* call[a]: "idle", "waiting", "ok" or "timeout"
          mark    \* mark[a]: value of latest when call a was made

vars == <<ops, latest, tried, disk, call, mark>>

CallState == {"idle", "waiting", "ok", "timeout"}

Init == /\ ops = 0
        /\ latest = [p \in Path |-> 0]
        /\ tried = [p \in Path |-> 0]
        /\ disk = [p \in Path |-> 0]
        /\ call = [a \in Call |-> "idle"]
        /\ mark = [a \in Call |-> [p \in Path |-> 0]]

\* An operation on p is handed over.
HandOver(p) == /\ ops' = ops + 1
               /\ latest' = [latest EXCEPT ![p] = ops + 1]
               /\ UNCHANGED <<tried, disk, call, mark>>

\* The store attempts operation i on p; older operations on p that it has
\* not attempted by then are never attempted.
Settle(p, i) == /\ tried[p] < i /\ i <= latest[p]
                /\ tried' = [tried EXCEPT ![p] = i]
                /\ disk' \in {disk, [disk EXCEPT ![p] = i]}
                /\ UNCHANGED <<ops, latest, call, mark>>

\* A flush is called.
Ask(a) == /\ call[a] # "waiting"
          /\ call' = [call EXCEPT ![a] = "waiting"]
          /\ mark' = [mark EXCEPT ![a] = latest]
          /\ UNCHANGED <<ops, latest, tried, disk>>

\* A flush answers "ok": everything handed over before it has been attempted.
Answer(a) == /\ call[a] = "waiting"
             /\ \A p \in Path : mark[a][p] <= tried[p]
             /\ call' = [call EXCEPT ![a] = "ok"]
             /\ UNCHANGED <<ops, latest, tried, disk, mark>>

\* A flush gives up waiting.
GiveUp(a) == /\ call[a] = "waiting"
             /\ call' = [call EXCEPT ![a] = "timeout"]
             /\ UNCHANGED <<ops, latest, tried, disk, mark>>

\* The process ends and is started again: what was not attempted is lost.
\* After a power cut a file may also be back at an earlier version.
Restart == /\ latest' = tried
           /\ call' = [a \in Call |-> "idle"]
           /\ mark' = [a \in Call |-> [p \in Path |-> 0]]
           /\ disk' \in [Path -> Nat]
           /\ \A p \in Path : disk'[p] <= disk[p]
           /\ UNCHANGED <<ops, tried>>

Next == \/ \E p \in Path : HandOver(p)
        \/ \E p \in Path, i \in 1..ops : Settle(p, i)
        \/ \E a \in Call : Ask(a) \/ Answer(a) \/ GiveUp(a)
        \/ Restart

Spec == Init /\ [][Next]_vars

=============================================================================
