------------------------------- MODULE Importer -------------------------------
(***************************************************************************)
(* The import of recorded requests into the saved requests, a command of   *)
(* the recorder's own program (germal-recorder/src/main.rs, replay.rs).    *)
(* The rows are read and marked one by one, and only then the files of the *)
(* saved requests are written, so a failure or a kill falls between a mark *)
(* and its file; meanwhile another process may go on recording.            *)
(*                                                                         *)
(* A row is the request it was recorded from: its category, host, method,  *)
(* headers and post data.                                                  *)
(***************************************************************************)
EXTENDS Naturals, Sequences

CONSTANTS
    Recordable, \* what the browser sends, as rows
    MaxRows,    \* bound: rows ever recorded
    MaxFaults   \* bound: failures of the database, of the disk, and kills

ASSUME ImporterAssumption == MaxRows \in Nat \ {0} /\ MaxFaults \in Nat

VARIABLES
    table,   \* the table requests, by row id: what was recorded
    marked,  \* the ids whose imported flag is set
    files,   \* the saved requests written for each id, one draft for each file
    command, \* the import that runs: what it does, the rows to mark and the requests to write
    seen,    \* the ids some import has read
    faults   \* how many imports were cut short

importVars == <<table, marked, files, command, seen, faults>>

NoCommand == [does |-> "nothing", rows |-> {}, out |-> {}]
Ids == 1..MaxRows

Supported(row) == row.method \notin {"TRACE", "CONNECT"}

\* The protocol layer and the HTTP client compute these headers anew.
Computed == {":path", "host", "content-length", "transfer-encoding"}

ContentType(headers) ==
    IF "json" \in headers THEN "Json" ELSE IF "xml" \in headers THEN "Xml" ELSE "Text"

\* to_draft of a row whose method is supported, and to_saved.
ToSaved(row) ==
    [method |-> row.method, headers |-> row.headers \ Computed, group |-> row.host,
     body |-> IF row.data THEN ContentType(row.headers) ELSE "None"]

ImporterInit ==
    /\ table = <<>> /\ marked = {} /\ files = [i \in Ids |-> <<>>]
    /\ command = NoCommand /\ seen = {} /\ faults = 0

RecordRow ==
    /\ Len(table) < MaxRows
    /\ \E row \in Recordable : table' = Append(table, row)
    /\ UNCHANGED <<marked, files, command, seen, faults>>

\* select: the ids of the category and host that were asked for.
Selected(category, host) ==
    {i \in DOMAIN table : /\ category \in {"any", table[i].category}
                         /\ host \in {"any", table[i].host}}

\* ORDER BY id
IsFirst(i, ids) == i \in ids /\ \A j \in ids : i <= j

ImportStarts ==
    /\ command = NoCommand
    /\ \E category \in {"any", "GET", "POST", "OTHER"}, host \in {"any"} \cup {r.host : r \in Recordable} :
          LET rows == Selected(category, host) \ marked
          IN  command' = [does |-> "mark", rows |-> rows, out |-> {}] /\ seen' = seen \cup rows
    /\ UNCHANGED <<table, marked, files, faults>>

MarkNothing(i) == marked

Mark(i) == marked \cup {i}

MarkRow ==
    /\ command.does = "mark"
    /\ \E i \in command.rows :
          /\ IsFirst(i, command.rows)
          /\ marked' = Mark(i)
          /\ command' = [command EXCEPT !.rows = @ \ {i},
                                       !.out = IF Supported(table[i]) THEN @ \cup {i} ELSE @]
    /\ UNCHANGED <<table, files, seen, faults>>

AllMarked ==
    /\ command.does = "mark" /\ command.rows = {}
    /\ command' = [command EXCEPT !.does = "write"]
    /\ UNCHANGED <<table, marked, files, seen, faults>>

\* write_atomic of one saved request, under an id of its own.
WriteRequest ==
    /\ command.does = "write"
    /\ \E i \in command.out :
          /\ IsFirst(i, command.out)
          /\ files' = [files EXCEPT ![i] = Append(@, ToSaved(table[i]))]
          /\ command' = [command EXCEPT !.out = @ \ {i}]
    /\ UNCHANGED <<table, marked, seen, faults>>

ImportEnds ==
    /\ command.does = "write" /\ command.out = {}
    /\ command' = NoCommand
    /\ UNCHANGED <<table, marked, files, seen, faults>>

\* An update or a write fails and the command returns the error, or it is killed.
ImportIsCutShort ==
    /\ command # NoCommand /\ faults < MaxFaults
    /\ faults' = faults + 1
    /\ command' = NoCommand
    /\ UNCHANGED <<table, marked, files, seen>>

ImporterNext ==
    \/ RecordRow \/ ImportStarts \/ MarkRow \/ AllMarked \/ WriteRequest \/ ImportEnds
    \/ ImportIsCutShort

ImporterSpec == ImporterInit /\ [][ImporterNext]_importVars

(***************************************************************************)
(* Properties                                                              *)
(***************************************************************************)
Written(i) == Len(files[i])

ImporterTypeOK ==
    /\ table \in Seq(Recordable) /\ Len(table) <= MaxRows
    /\ marked \subseteq seen /\ seen \subseteq DOMAIN table
    /\ files \in [Ids -> Seq({ToSaved(r) : r \in Recordable})]
    /\ command \in [does : {"nothing", "mark", "write"}, rows : SUBSET DOMAIN table, out : SUBSET DOMAIN table]
    /\ faults \in 0..MaxFaults

\* However often imports are run, cut short and run again while recording goes
\* on, no row becomes two saved requests, a row recorded after an import read
\* the table is left for the next one, and as long as none was cut short a
\* marked row has its saved request, unless its method is not supported
\* (take_new: "importing again makes no duplicates").
ImportedOnce ==
    /\ \A i \in Ids : Written(i) <= 1
    /\ marked \subseteq seen
    /\ faults = 0 =>
           \A i \in marked : Written(i) = 1 \/ i \in command.out \/ ~Supported(table[i])
=============================================================================
