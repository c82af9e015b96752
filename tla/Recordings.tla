------------------------------ MODULE Recordings ------------------------------
(***************************************************************************)
(* The table of recorded requests and those who work on it: the recorder   *)
(* that inserts rows (record_sheet.rs starts and stops it) and the panel   *)
(* that shows them (record_view.rs, record_pages.rs).                      *)
(*                                                                         *)
(* Rows are numbered as they are inserted, over all projects, and are      *)
(* never changed or deleted here.                                          *)
(* The panel asks the database in the background: for the latest rows when *)
(* a project is opened, and for the rows after the last one it has about   *)
(* every second while a recording runs.  An answer is applied later, to    *)
(* whatever the panel shows by then.                                       *)
(*                                                                         *)
(* Left out: what a row contains beyond its Shapes, the names of projects, *)
(* the lookup of hosts, and a missing data directory.  The browser and     *)
(* SQLite are external.                                                    *)
(***************************************************************************)
EXTENDS Naturals, Sequences, FiniteSets, SequencesExt

CONSTANTS
  Shapes,         \* kinds of rows: [category, host, domain, known]
  Views,          \* what the user may choose to see: [filter, by, name]
  HistoryLimit,   \* rows a history has at most: 20000 in list_entries
  PollLimit,      \* rows a poll has at most: 5000 in list_entries
  MaxProjects,    \* bound: projects
  MaxRows,        \* bound: rows
  MaxRuns,        \* bound: recordings
  MaxErrors       \* bound: queries that fail

ASSUME LimitsAssumption ==
  /\ {HistoryLimit, PollLimit, MaxProjects} \subseteq Nat \ {0}
  /\ {MaxRows, MaxRuns, MaxErrors} \subseteq Nat

VARIABLES
  table,      \* requests: the project and shape of every row
  projects,   \* the number of projects; 1 is Default
  writers,    \* projects some watch task may still insert into
  sheet,      \* State of RecordSheet, and the project it records into
  project,    \* RecordView: the project shown
  rows,       \* its rows, by their numbers
  lastId,     \* last_id
  domains,    \* rows per host
  visible,    \* positions of the rows shown, the newest first
  choice,     \* filter and scope
  selected,   \* the row selected and the one whose details are there
  active,     \* a recording runs, for the panel
  poll,       \* the task that polls
  load,       \* the task that loads a history or a row
  creating,   \* a new project is under way
  used,       \* how much of each bound is used up
  crossed,    \* a poll was under way when the panel switched to this project
  behind      \* the last poll of a recording was cut off or failed

viewVars == <<project, rows, lastId, domains, visible, choice, selected, active, poll, load>>
dbVars   == <<table, projects, writers>>
auxVars  == <<used, crossed, behind>>
vars     == <<dbVars, sheet, viewVars, creating, auxVars>>

None == 0
Id   == 1..MaxRows
Project == 1..MaxProjects
Hosts == {s.host : s \in Shapes}
Everything == [filter |-> "ALL", by |-> "all", name |-> "all"]
NoTask == [at |-> "none"]
AllHosts(c) == [filter |-> c.filter, by |-> "all", name |-> "all"]

Ascending(seq) == \A i, j \in DOMAIN seq : i < j => seq[i] < seq[j]

\* The numbers of a finite set as a sequence, the least one first.
InOrder(I) == CHOOSE seq \in [1..Cardinality(I) -> I] : ToSet(seq) = I /\ Ascending(seq)

\* What a sequence has at the places in I.
Picked(seq, I) == LET places == InOrder(I) IN [k \in DOMAIN places |-> seq[places[k]]]

IdSeq == {s \in UNION {[1..n -> Id] : n \in 0..MaxRows} : Ascending(s)}

TypeOK ==
  /\ table \in Seq([project : Project, shape : Shapes]) /\ Len(table) <= MaxRows
  /\ projects \in Project
  /\ writers \subseteq Project
  /\ sheet \in [state : {"Idle", "Recording", "Stopping", "Ended"}, project : Project \cup {None}]
  /\ project \in Project
  /\ rows \in IdSeq
  /\ lastId \in Id \cup {None}
  /\ domains \in [Hosts -> 0..MaxRows]
  /\ visible \in Seq(1..MaxRows)
  /\ choice \in Views \cup {Everything} \cup {AllHosts(v) : v \in Views}
  /\ selected \in [row : Id \cup {None}, detail : Id \cup {None}]
  /\ active \in BOOLEAN
  /\ poll \in {NoTask, [at |-> "timer"]}
          \cup [at : {"asked"}, of : Project, done : BOOLEAN, failed : BOOLEAN, found : IdSeq]
  /\ load \in {NoTask} \cup [at : {"asked"}, of : Project]
          \cup [at : {"read"}, found : IdSeq] \cup [at : {"entry"}, id : Id]
  /\ creating \in BOOLEAN
  /\ crossed \in BOOLEAN /\ behind \in BOOLEAN

Init ==
  /\ table = <<>> /\ projects = 1 /\ writers = {}
  /\ sheet = [state |-> "Idle", project |-> None]
  /\ project = 1 /\ rows = <<>> /\ lastId = None /\ visible = <<>>
  /\ domains = [h \in Hosts |-> 0]
  /\ choice = Everything
  /\ selected = [row |-> None, detail |-> None]
  /\ active = FALSE
  /\ poll = NoTask
  /\ load = [at |-> "asked", of |-> 1]
  /\ creating = FALSE
  /\ used = [runs |-> 0, errors |-> 0]
  /\ crossed = FALSE /\ behind = FALSE

-----------------------------------------------------------------------------
(* The database *)

\* The rows of a project after a given one.
Of(p, after) == InOrder({i \in DOMAIN table : table[i].project = p /\ i > after})

\* Variant: the newest PollLimit of them.
ListAfterNewest(p, after) ==
  LET all == Of(p, after)
  IN  SubSeq(all, IF Len(all) > PollLimit THEN Len(all) - PollLimit + 1 ELSE 1, Len(all))

\* list_after: the oldest PollLimit of them.
ListAfter(p, after) ==
  LET all == Of(p, after) IN SubSeq(all, 1, IF Len(all) > PollLimit THEN PollLimit ELSE Len(all))

\* Variant: the rows come as the query finds them, the newest first.
ListLatestUnreversed(p) ==
  LET all == Reverse(Of(p, None))
  IN  SubSeq(all, 1, IF Len(all) > HistoryLimit THEN HistoryLimit ELSE Len(all))

\* list_latest: the newest HistoryLimit of a project.
ListLatest(p) ==
  LET all == Of(p, None)
  IN  SubSeq(all, IF Len(all) > HistoryLimit THEN Len(all) - HistoryLimit + 1 ELSE 1, Len(all))

\* A watch task stores a row (Recorder describes which).
Insert(p) ==
  /\ p \in writers
  /\ Len(table) < MaxRows
  /\ \E s \in Shapes : table' = Append(table, [project |-> p, shape |-> s])
  /\ UNCHANGED <<projects, writers, sheet, viewVars, creating, auxVars>>

Recording == sheet.state \in {"Recording", "Stopping"}

\* The watch tasks are not waited for: they end some time after the recording.
WatchersEnd(p) ==
  /\ p \in writers
  /\ sheet.project # p
  /\ writers' = writers \ {p}
  /\ UNCHANGED <<table, projects, sheet, viewVars, creating, auxVars>>

-----------------------------------------------------------------------------
(* RecordSheet: starting and stopping a recording *)

\* toggle: Started makes the panel poll; a poll of an earlier recording is dropped.
Start ==
  /\ ~Recording
  /\ used.runs < MaxRuns
  /\ sheet' = [state |-> "Recording", project |-> project]
  /\ writers' = writers \cup {project}
  /\ active' = TRUE
  /\ poll' = [at |-> "timer"]
  /\ behind' = FALSE
  /\ used' = [used EXCEPT !.runs = @ + 1]
  /\ UNCHANGED <<table, projects, project, rows, lastId, domains, visible, choice,
                 selected, load, creating, crossed>>

Stop ==
  /\ sheet.state = "Recording"
  /\ sheet' = [sheet EXCEPT !.state = "Stopping"]
  /\ UNCHANGED <<dbVars, viewVars, creating, auxVars>>

\* The recorder has ended: it was stopped, the browser was closed, or something
\* failed (Finished and Failed, which differ in what is said).  Stopped tells
\* the panel.
RunEnds ==
  /\ Recording
  /\ sheet' = [state |-> "Ended", project |-> None]
  /\ active' = FALSE
  /\ UNCHANGED <<dbVars, project, rows, lastId, domains, visible, choice, selected, poll, load,
                 creating, auxVars>>

-----------------------------------------------------------------------------
(* RecordView *)

\* Filter::matches and Scope.
Matches(id, c) ==
  LET s == table[id].shape
  IN  /\ c.filter \in {"ALL", s.category}
      /\ CASE c.by = "all"    -> TRUE
           [] c.by = "domain" -> s.domain = c.name
           [] c.by = "host"   -> s.host = c.name

\* refilter
Filtered(ids, c) == Reverse(InOrder({i \in DOMAIN ids : Matches(ids[i], c)}))

OnHost(ids, h) == Cardinality({i \in DOMAIN ids : table[ids[i]].shape.host = h})

\* Variant: everything that was answered is taken.
PushAll(found) ==
  IF found = <<>> THEN UNCHANGED <<rows, lastId, domains, visible>>
  ELSE /\ rows' = rows \o found
       /\ lastId' = Last(found)
       /\ domains' = [h \in Hosts |-> domains[h] + OnHost(found, h)]
       /\ visible' = Filtered(rows', choice)

\* push: the rows that are newer than the last one are appended.
Push(found) ==
  LET fresh == Picked(found, {k \in DOMAIN found : found[k] > lastId})
  IN  IF fresh = <<>> THEN UNCHANGED <<rows, lastId, domains, visible>>
      ELSE /\ rows' = rows \o fresh
           /\ lastId' = Last(fresh)
           /\ domains' = [h \in Hosts |-> domains[h] + OnHost(fresh, h)]
           /\ visible' = Filtered(rows', choice)

\* load_history: the query is answered in the background, or fails.
HistoryRead ==
  /\ load.at = "asked"
  /\ load' = [at |-> "read", found |-> ListLatest(load.of)]
  /\ UNCHANGED <<dbVars, sheet, project, rows, lastId, domains, visible, choice, selected,
                 active, poll, creating, auxVars>>

HistoryFails ==
  /\ load.at = "asked"
  /\ used.errors < MaxErrors
  /\ used' = [used EXCEPT !.errors = @ + 1]
  /\ load' = NoTask
  /\ UNCHANGED <<dbVars, sheet, project, rows, lastId, domains, visible, choice, selected,
                 active, poll, creating, crossed, behind>>

HistoryShown ==
  /\ load.at = "read"
  /\ Push(load.found)
  /\ load' = NoTask
  /\ UNCHANGED <<dbVars, sheet, project, choice, selected, active, poll, creating,
                 auxVars>>

\* The timer of the poll: first whether the recording has ended, then the query.
PollReads(failed) ==
  LET found == IF failed THEN <<>> ELSE ListAfter(project, lastId)
  IN  poll' = [at |-> "asked", of |-> project, done |-> ~active, failed |-> failed, found |-> found]

PollTick ==
  /\ poll.at = "timer"
  /\ \E failed \in BOOLEAN :
       /\ failed => used.errors < MaxErrors
       /\ used' = [used EXCEPT !.errors = IF failed THEN @ + 1 ELSE @]
       /\ PollReads(failed)
       /\ behind' = (behind \/ /\ ~active
                               /\ failed \/ Len(Of(project, lastId)) > PollLimit)
  /\ UNCHANGED <<dbVars, sheet, project, rows, lastId, domains, visible, choice, selected,
                 active, load, creating, crossed>>

\* Variant: whether the recording has ended is looked up after the query.
PollShownThenAsks ==
  /\ poll.at = "asked"
  /\ IF poll.failed THEN UNCHANGED <<rows, lastId, domains, visible>> ELSE Push(poll.found)
  /\ poll' = IF active THEN [at |-> "timer"] ELSE NoTask
  /\ UNCHANGED <<dbVars, sheet, project, choice, selected, active, load, creating, auxVars>>

PollShown ==
  /\ poll.at = "asked"
  /\ IF poll.failed THEN UNCHANGED <<rows, lastId, domains, visible>> ELSE Push(poll.found)
  /\ poll' = IF poll.done THEN NoTask ELSE [at |-> "timer"]
  /\ UNCHANGED <<dbVars, sheet, project, choice, selected, active, load, creating,
                 auxVars>>

\* select_scope and set_filter
Choose(c) ==
  /\ c # choice
  /\ choice' = c
  /\ visible' = Filtered(rows, c)
  /\ UNCHANGED <<dbVars, sheet, project, rows, lastId, domains, selected, active, poll, load,
                 creating, auxVars>>

\* select: the task of a history that is still to come is dropped.
SelectRow(i) ==
  /\ i \in ToSet(visible)
  /\ selected' = [row |-> rows[i], detail |-> None]
  /\ load' = [at |-> "entry", id |-> rows[i]]
  /\ UNCHANGED <<dbVars, sheet, project, rows, lastId, domains, visible, choice, active, poll,
                 creating, auxVars>>

EntryShown ==
  /\ load.at = "entry"
  /\ selected' = IF selected.row = load.id THEN [selected EXCEPT !.detail = load.id] ELSE selected
  /\ load' = NoTask
  /\ UNCHANGED <<dbVars, sheet, project, rows, lastId, domains, visible, choice, active, poll,
                 creating, auxVars>>

\* Variant: the counts of the project before stay.
SwitchKeepingCounts(p) ==
  /\ project' = p
  /\ rows' = <<>> /\ visible' = <<>> /\ lastId' = None
  /\ choice' = AllHosts(choice)
  /\ selected' = [row |-> None, detail |-> None]
  /\ load' = [at |-> "asked", of |-> p]
  /\ crossed' = (poll.at = "asked")
  /\ UNCHANGED domains

\* What switch_project does when it is not refused.
Switch(p) ==
  /\ project' = p
  /\ rows' = <<>> /\ visible' = <<>> /\ lastId' = None
  /\ domains' = [h \in Hosts |-> 0]
  /\ choice' = AllHosts(choice)
  /\ selected' = [row |-> None, detail |-> None]
  /\ load' = [at |-> "asked", of |-> p]
  /\ crossed' = (poll.at = "asked")

SwitchProject(p) ==
  /\ p <= projects
  /\ p # project
  /\ ~Recording
  /\ Switch(p)
  /\ UNCHANGED <<dbVars, sheet, active, poll, creating, used, behind>>

\* prompt_new_project, and its name confirmed.
AskProject ==
  /\ ~creating /\ ~Recording
  /\ creating' = TRUE
  /\ UNCHANGED <<dbVars, sheet, viewVars, auxVars>>

\* create_project: a project of that name, new or not; the panel switches to it
\* unless a recording has begun meanwhile.  An empty name is ignored.
ProjectCreated(p) ==
  /\ creating
  /\ creating' = FALSE
  /\ p <= projects + 1
  /\ projects' = IF p > projects THEN p ELSE projects
  /\ IF p = project \/ Recording
     THEN UNCHANGED <<project, rows, lastId, domains, visible, choice, selected, load, crossed>>
     ELSE Switch(p)
  /\ UNCHANGED <<table, writers, sheet, active, poll, used, behind>>

ProjectRefused ==
  /\ creating
  /\ creating' = FALSE
  /\ UNCHANGED <<dbVars, sheet, viewVars, auxVars>>

-----------------------------------------------------------------------------
Recorder == \/ \E p \in Project : Insert(p) \/ WatchersEnd(p)
            \/ RunEnds

Panel == \/ HistoryRead \/ HistoryFails \/ HistoryShown \/ PollTick \/ PollShown \/ EntryShown
         \/ \E p \in Project : ProjectCreated(p)
         \/ ProjectRefused

User == \/ Start \/ Stop \/ AskProject
        \/ \E c \in Views \cup {Everything} : Choose(c)
        \/ \E i \in Id : SelectRow(i)
        \/ \E p \in Project : SwitchProject(p)

Next == Recorder \/ Panel \/ User

Spec == Init /\ [][Next]_vars

\* Timers fire and queries are answered; nobody else has to act.
FairSpec == Spec /\ WF_vars(PollTick) /\ WF_vars(PollShown)

-----------------------------------------------------------------------------
(* Properties *)

\* No row is listed twice and the list stays in the order of the rows, however
\* the history and the polls, which read the same rows, come in (the filter by
\* last_id in push).
ListedOnce ==
  /\ Ascending(rows)
  /\ lastId = IF rows = <<>> THEN None ELSE Last(rows)

\* As long as a project fits into one history, the panel shows its rows from the
\* first one without a gap: a poll that comes in before the history, a history
\* that comes late, is dropped for a selection or fails leaves no hole.
NoGaps ==
  ~crossed /\ Len(Of(project, None)) <= HistoryLimit => IsPrefix(rows, Of(project, None))

\* The list is made of two reads of one table, the history and the polls, that
\* overlap and answer in any order: together they show each row once, in order,
\* and leave none out (record_view.rs push, load_recent).
ListIsComplete == TypeOK /\ ListedOnce /\ NoGaps

\* The counts of the side bar and the rows shown agree with the rows and the
\* filter, after every switch, answer and choice.
ViewAddsUp ==
  /\ \A h \in Hosts : domains[h] = OnHost(rows, h)
  /\ visible = Filtered(rows, choice)

\* What is in the table while the panel follows a recording gets shown, and what
\* was inserted before the end too ("the one poll after the end gets the last
\* batch", start_polling): unless the user goes to another project, or the last
\* poll fails or finds more rows than it may take.
Belongs(i) == i \in DOMAIN table /\ table[i].project = project
RecordedIsShown ==
  \A i \in Id : active /\ Belongs(i) ~> lastId >= i \/ ~Belongs(i) \/ behind

\* The panel shows rows of the project it names ("switching clears the list and
\* loads the history of that project", switch_project).
RowsOfProject == \A i \in DOMAIN rows : table[rows[i]].project = project

=============================================================================
