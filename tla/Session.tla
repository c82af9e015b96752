------------------------------ MODULE Session ------------------------------
(***************************************************************************)
(* The tabs of Germal's window and what becomes of them across restarts:   *)
(* germal-app/src/state/workspace.rs (tabs, saved requests, dialogs), the  *)
(* draft half of state/request_tab.rs, state/store.rs and germal-core's    *)
(* store/mod.rs.                                                           *)
(*                                                                         *)
(* Every handler runs to its end on the UI thread, so a handler is one     *)
(* step; the handler's writes go to the writer thread, which performs them *)
(* between any two handlers.  The writer is the queue of module            *)
(* StoreWriter without its clock: StoreWriter!QueueOrder says that it      *)
(* performs first the path that was queued first, and that is the queue    *)
(* here.  The process may be killed between any two steps.                 *)
(*                                                                         *)
(* The request in a tab is abstracted to the number of the edit that made  *)
(* it; names, groups, panel sizes and the order of the sidebar are left    *)
(* out, and so is the read-only mode without a writable data directory.    *)
(***************************************************************************)
EXTENDS Naturals, FiniteSets, SequencesExt, Places

CONSTANTS
  MaxTabs,     \* bound: tabs ever made
  MaxSaves,    \* bound: requests ever saved under a new id
  MaxEdits,    \* bound: edits and templates
  MaxBacklog,  \* bound: operations queued when the user acts again
  MaxFailures  \* bound: writes that fail, kills, quits that give up on the writer

ASSUME ConstantsAssumption ==
  {MaxTabs, MaxSaves, MaxEdits, MaxBacklog, MaxFailures} \subseteq Nat /\ MaxTabs # 0

VARIABLES
  phase,    \* "run", "quitting", or "quit" once the process has ended
  tabs,     \* Workspace.tabs, as tab ids
  active,   \* Workspace.active
  tab,      \* tab[t]: the request, the saved request it came from, dirty;
            \* Blank when there is no such tab
  timer,    \* tabs whose debounced draft write is pending (draft_save)
  saved,    \* Workspace.saved: the saved requests by id
  dialog,   \* the open dialog; a save dialog keeps its tab alive
  queue,    \* operations handed to the writer and not performed yet
  disk,     \* the files: {} when there is none, {content} otherwise
  ghosts,   \* history: tabs closed while the save dialog held them
  tabCount, saveCount, edits, faults, kills

memory   == <<tabs, active, tab, timer, saved, dialog, ghosts>>
counters == <<tabCount, saveCount, edits, faults, kills>>
vars     == <<phase, memory, queue, disk, counters>>

TabId   == 1..MaxTabs
SavedId == 1..MaxSaves
None    == 0                  \* no saved request
Content == 0..MaxEdits        \* 0: the empty request of a new tab

Tab    == [content : Content, saved : SavedId \cup {None}, dirty : BOOLEAN]
Blank  == [content |-> 0, saved |-> None, dirty |-> FALSE]
Dialog == [kind : {"none"}, id : {0}] \cup [kind : {"save"}, id : TabId]
            \cup [kind : {"delete"}, id : SavedId]
NoDialog == [kind |-> "none", id |-> 0]

DraftFile(t)   == <<"draft", t>>
RequestFile(x) == <<"request", x>>
WorkspaceFile  == <<"workspace", 0>>
Path == ({"draft"} \X TabId) \cup ({"request"} \X SavedId) \cup {WorkspaceFile}

\* The UI thread is idle, so a handler may run.
Acting == phase = "run" /\ Len(queue) <= MaxBacklog

IsOpen(t) == \E i \in DOMAIN tabs : tabs[i] = t

\* Tabs exist, the active one is among them ("tabs is never empty"), and no
\* tab is listed twice.
TypeOK ==
  /\ phase \in {"run", "quitting", "quit"}
  /\ tabs \in Seq(TabId) /\ tabs # <<>>
  /\ IsInjective(tabs)
  /\ active \in DOMAIN tabs
  /\ tab \in [TabId -> Tab]
  /\ timer \subseteq TabId
  /\ DOMAIN saved \subseteq SavedId /\ \A x \in DOMAIN saved : saved[x] \in Content
  /\ dialog \in Dialog
  /\ \A i \in DOMAIN queue : queue[i].path \in Path
  /\ DOMAIN disk = Path
  /\ ghosts \subseteq TabId
  /\ tabCount \in 0..MaxTabs /\ saveCount \in 0..MaxSaves /\ edits \in 0..MaxEdits
  /\ faults \in 0..MaxFailures /\ kills \in 0..MaxFailures

-----------------------------------------------------------------------------
(* What is handed to the writer *)

Write(p, v) == [path |-> p, file |-> {v}]
Delete(p)   == [path |-> p, file |-> {}]

Queued(q, p) == \E i \in DOMAIN q : q[i].path = p

\* Variant: the first operation of a window wins.
EnqueueKeepsFirst(q, op) == IF Queued(q, op.path) THEN q ELSE Append(q, op)

\* As StoreWriter!Enqueue: one queued operation per path, in its place.
Enqueue(q, op) ==
  IF Queued(q, op.path)
  THEN [i \in DOMAIN q |-> IF q[i].path = op.path THEN op ELSE q[i]]
  ELSE Append(q, op)

\* The operation on p that was handed over last.
Newest(ops, p) ==
  LET places == {i \in DOMAIN ops : ops[i].path = p}
  IN  ops[CHOOSE i \in places : \A j \in places : j <= i]

\* The places of the first operations on paths for which nothing is queued.
Arriving(q, ops) ==
  {i \in DOMAIN ops : ~Queued(q, ops[i].path) /\ \A j \in 1..(i - 1) : ops[j].path # ops[i].path}

\* Enqueue for several operations in turn: the newest of each path, in the place of
\* its first.
Enqueued(q, ops) ==
  LET all == q \o Picked(ops, Arriving(q, ops))
  IN  [i \in DOMAIN all |-> IF Queued(ops, all[i].path) THEN Newest(ops, all[i].path) ELSE all[i]]

Send(operations) == queue' = Enqueued(queue, operations)

\* save_draft_now writes tab_draft(); persist_workspace writes the layout.
Draft(t, value) == Write(DraftFile(t), value)
Layout(ts, a)   == Write(WorkspaceFile, [order |-> ts, active |-> ts[a]])

\* What new_tab writes when n becomes the last of ts.
NewTabWrites(n, ts) == <<Draft(n, Blank), Layout(ts, Len(ts))>>

\* Variant: the timer of a dropped tab goes on.
TimersNeverStop(ts, d) == TabId

\* The entities that are alive: a tab that is dropped takes its timer with it.
Alive(ts, d) == {t \in TabId : \/ \E i \in DOMAIN ts : ts[i] = t
                               \/ d = [kind |-> "save", id |-> t]}

Dropped(alive) == [t \in TabId |-> IF t \in alive THEN tab[t] ELSE Blank]

-----------------------------------------------------------------------------
Init ==
  /\ phase = "run"
  /\ tabs = <<1>> /\ active = 1
  /\ tab = [t \in TabId |-> Blank]
  /\ timer = {}
  /\ saved = <<>>
  /\ dialog = NoDialog
  /\ queue = NewTabWrites(1, <<1>>)
  /\ disk = [p \in Path |-> {}]
  /\ ghosts = {}
  /\ tabCount = 1 /\ saveCount = 0 /\ edits = 0 /\ faults = 0 /\ kills = 0

-----------------------------------------------------------------------------
(* Tabs *)

\* mark_dirty: the only entry for changes to a tab's request.
Edit(t) ==
  /\ Acting /\ IsOpen(t)
  /\ edits < MaxEdits
  /\ edits' = edits + 1
  /\ tab' = [tab EXCEPT ![t].content = edits + 1, ![t].dirty = TRUE]
  /\ timer' = timer \cup {t}
  /\ UNCHANGED <<phase, tabs, active, saved, dialog, ghosts, queue, disk,
                 tabCount, saveCount, faults, kills>>

\* The debounce timer of schedule_draft_save ends in save_draft_now.
TimerFires(t) ==
  /\ phase = "run" /\ t \in timer
  /\ timer' = timer \ {t}
  /\ queue' = Enqueue(queue, Draft(t, tab[t]))
  /\ UNCHANGED <<phase, tabs, active, tab, saved, dialog, ghosts, disk, counters>>

\* new_tab, followed by what its caller does with the new tab: value is what
\* ends up in it, position where it ends up, more what is written after that.
AddTab(value, position, more) ==
  LET n == tabCount + 1
      ts == InsertAt(tabs, position, n)
  IN  /\ Acting /\ tabCount < MaxTabs
      /\ tabCount' = n
      /\ tabs' = ts
      /\ active' = position
      /\ tab' = [tab EXCEPT ![n] = value]
      /\ Send(NewTabWrites(n, Append(tabs, n)) \o more)
      /\ UNCHANGED <<phase, timer, saved, dialog, ghosts, disk, saveCount, faults, kills>>

NewTab == /\ AddTab(Blank, Len(tabs) + 1, <<>>)
          /\ UNCHANGED edits

\* Variant: the copy stays linked to the saved request.
CopyKeepsLink(value) == [value EXCEPT !.dirty = TRUE]
\* "A copy is always unsaved and dirty" (duplicate_tab).
Copy(value) == [value EXCEPT !.saved = None, !.dirty = TRUE]

\* The copy is appended by new_tab and then moved next to its source.
DuplicateTab(i) ==
  LET n == tabCount + 1
      copy == Copy(tab[tabs[i]])
      moved == IF i = Len(tabs) THEN <<>>
               ELSE <<Layout(InsertAt(tabs, i + 1, n), i + 1)>>
  IN  /\ AddTab(copy, i + 1, <<Draft(n, copy)>> \o moved)
      /\ UNCHANGED edits

\* open_template: always a new, dirty tab.
OpenTemplate ==
  LET value == [content |-> edits + 1, saved |-> None, dirty |-> TRUE]
  IN  /\ edits < MaxEdits
      /\ edits' = edits + 1
      /\ AddTab(value, Len(tabs) + 1, <<Draft(tabCount + 1, value)>>)

Activate(i) ==
  /\ Acting /\ i # active
  /\ active' = i
  /\ queue' = Enqueue(queue, Layout(tabs, i))
  /\ UNCHANGED <<phase, tabs, tab, timer, saved, dialog, ghosts, disk, counters>>

\* open_saved: at most one tab per saved request.
OpenSaved(x) ==
  LET value == [content |-> saved[x], saved |-> x, dirty |-> FALSE]
      shown == {i \in DOMAIN tabs : tab[tabs[i]].saved = x}
  IN  IF shown # {}
      THEN Activate(CHOOSE i \in shown : \A j \in shown : i <= j)
      ELSE /\ AddTab(value, Len(tabs) + 1, <<Draft(tabCount + 1, value)>>)
           /\ UNCHANGED edits

\* Variant: the index is only clamped.
ActiveClamped(a, closing, len) == IF a >= len - 1 THEN len - 1 ELSE a
\* active_after_close, for indices from 1.
ActiveAfterClose(a, closing, len) ==
  IF a >= len THEN len - 1 ELSE IF closing < a THEN a - 1 ELSE a

\* The tabs of gone leave the strip; what is left is ts with active a.
RemoveTabs(gone, ts, a) ==
  /\ Acting
  /\ tabs' = ts
  /\ active' = a
  /\ tab' = Dropped(Alive(ts, dialog))
  /\ timer' = timer \cap Alive(ts, dialog)
  /\ ghosts' = ghosts \cup {t \in gone : dialog = [kind |-> "save", id |-> t]}
  /\ UNCHANGED <<phase, saved, dialog, disk, saveCount, edits, faults, kills>>

\* close_tab while others stay open: "closing a tab deletes its draft".
CloseTab(i) ==
  LET ts == RemoveAt(tabs, i)
      a == ActiveAfterClose(active, i, Len(tabs))
  IN  /\ Len(tabs) > 1
      /\ RemoveTabs({tabs[i]}, ts, a)
      /\ Send(<<Delete(DraftFile(tabs[i])), Layout(ts, a)>>)
      /\ UNCHANGED tabCount

\* close_other_tabs: deletes from the last tab to the first.
CloseOtherTabs(keep) ==
  LET gone == Reverse(RemoveAt(tabs, keep))
  IN  /\ Len(tabs) > 1
      /\ RemoveTabs(ToSet(gone), <<tabs[keep]>>, 1)
      /\ Send([i \in DOMAIN gone |-> Delete(DraftFile(gone[i]))]
                \o <<Layout(<<tabs[keep]>>, 1)>>)
      /\ UNCHANGED tabCount

\* close_all_tabs, and close_tab on the only tab: a new tab takes their place.
CloseAllTabs ==
  LET n == tabCount + 1
  IN  /\ tabCount < MaxTabs
      /\ tabCount' = n
      /\ RemoveTabs(ToSet(tabs), <<n>>, 1)
      /\ Send([i \in DOMAIN tabs |-> Delete(DraftFile(tabs[i]))]
                \o NewTabWrites(n, <<n>>))

-----------------------------------------------------------------------------
(* Saved requests *)

\* finish_save and overwrite_saved once the id is known: the request is
\* written, then the tab's draft, which is clean and linked to it.
SaveAs(t, x) ==
  LET value == [tab[t] EXCEPT !.saved = x, !.dirty = FALSE]
  IN  /\ saved' = [y \in DOMAIN saved \cup {x} |-> IF y = x THEN value.content ELSE saved[y]]
      /\ tab' = [tab EXCEPT ![t] = value]
      /\ Send(<<Write(RequestFile(x), value.content), Draft(t, value)>>)

\* save_active on a tab that was saved before.  The branch of overwrite_saved
\* for a request missing from the list is not modelled: SavedLinkValid.
Overwrite ==
  LET t == tabs[active]
  IN  /\ Acting
      /\ tab[t].saved # None
      /\ SaveAs(t, tab[t].saved)
      /\ timer' = timer \ {t}
      /\ UNCHANGED <<phase, tabs, active, dialog, ghosts, disk, counters>>

\* prompt_save_name and confirm_delete_saved: ignored while a dialog is open.
OpenDialog(d) ==
  /\ Acting
  /\ dialog = NoDialog
  /\ dialog' = d
  /\ UNCHANGED <<phase, tabs, active, tab, timer, saved, ghosts, queue, disk, counters>>

OpenSaveDialog == /\ tab[tabs[active]].saved = None
                  /\ OpenDialog([kind |-> "save", id |-> tabs[active]])

OpenDeleteDialog(x) == OpenDialog([kind |-> "delete", id |-> x])

\* on_ok of the save dialog, the tab still being open: finish_save.
ConfirmSave ==
  LET t == dialog.id
  IN  /\ Acting
      /\ dialog.kind = "save" /\ IsOpen(t)
      /\ saveCount < MaxSaves
      /\ saveCount' = saveCount + 1
      /\ SaveAs(t, saveCount + 1)
      /\ timer' = timer \ {t}
      /\ dialog' = NoDialog
      /\ UNCHANGED <<phase, tabs, active, ghosts, disk, tabCount, edits, faults, kills>>

\* Any dialog is cancelled, or the save dialog is confirmed for a tab that was
\* closed meanwhile (finish_save returns at once).
CloseDialog ==
  /\ Acting
  /\ dialog # NoDialog
  /\ dialog' = NoDialog
  /\ tab' = Dropped(Alive(tabs, NoDialog))
  /\ timer' = timer \cap Alive(tabs, NoDialog)
  /\ UNCHANGED <<phase, tabs, active, saved, ghosts, queue, disk, counters>>

\* Variant: the tab is not marked as changed.
DetachedClean(value) == [value EXCEPT !.saved = None]
\* A tab whose saved request is deleted or missing: unsaved and changed.
Detached(value) == [value EXCEPT !.saved = None, !.dirty = TRUE]

\* on_ok of the delete dialog: delete_saved.
ConfirmDelete ==
  LET x == dialog.id
      linked == Picked(tabs, {i \in DOMAIN tabs : tab[tabs[i]].saved = x})
  IN  /\ Acting
      /\ dialog.kind = "delete"
      /\ dialog' = NoDialog
      /\ saved' = [y \in DOMAIN saved \ {x} |-> saved[y]]
      /\ tab' = [t \in TabId |-> IF t \in ToSet(linked) THEN Detached(tab[t]) ELSE tab[t]]
      /\ timer' = timer \ ToSet(linked)
      /\ Send(<<Delete(RequestFile(x))>>
                \o [i \in DOMAIN linked |-> Draft(linked[i], Detached(tab[linked[i]]))])
      /\ UNCHANGED <<phase, tabs, active, ghosts, disk, counters>>

-----------------------------------------------------------------------------
(* The writer, the end of the process and the next start *)

Running == phase \in {"run", "quitting"}

\* The writer performs the operation at the head of its queue; one that fails
\* is dropped (StoreWriter!Finish).
Perform ==
  /\ Running /\ queue # <<>>
  /\ queue' = Tail(queue)
  /\ disk' = [disk EXCEPT ![Head(queue).path] = Head(queue).file]
  /\ UNCHANGED <<phase, memory, counters>>

PerformFails ==
  /\ Running /\ queue # <<>>
  /\ faults + kills < MaxFailures
  /\ faults' = faults + 1
  /\ queue' = Tail(queue)
  /\ UNCHANGED <<phase, memory, disk, tabCount, saveCount, edits, kills>>

\* flush_on_exit: the UI thread hands over every draft and waits.
Quit ==
  /\ Acting
  /\ phase' = "quitting"
  /\ timer' = timer \ ToSet(tabs)
  /\ Send([i \in DOMAIN tabs |-> Draft(tabs[i], tab[tabs[i]])])
  /\ UNCHANGED <<tabs, active, tab, saved, dialog, ghosts, disk, counters>>

\* flush returns true: by StoreWriter!FlushComplete nothing is left.
Leave ==
  /\ phase = "quitting" /\ queue = <<>>
  /\ phase' = "quit"
  /\ UNCHANGED <<memory, queue, disk, counters>>

Exists(p)   == disk[p] # {}
Contents(p) == CHOOSE v \in disk[p] : TRUE

\* order_drafts: the order of workspace.json, then the drafts it does not know
\* by id, which is by age.
OrderedBy(layout, found) ==
  LET order == IF layout # {} THEN (CHOOSE l \in layout : TRUE).order ELSE <<>>
  IN  Picked(order, {i \in DOMAIN order : order[i] \in found}) \o InOrder(found \ ToSet(order))

OrderedDrafts == OrderedBy(disk[WorkspaceFile], {t \in TabId : Exists(DraftFile(t))})

ActiveIn(layout, order) ==
  LET shown == {i \in DOMAIN order : \E l \in layout : l.active = order[i]}
  IN  IF shown = {} THEN 1 ELSE CHOOSE i \in shown : TRUE

LoadedActive == ActiveIn(disk[WorkspaceFile], OrderedDrafts)

LoadedSaved == [x \in {x \in SavedId : Exists(RequestFile(x))} |-> Contents(RequestFile(x))]

\* A draft whose saved request has no file any more becomes an unsaved tab.
LoadedTab(t) ==
  LET draft == Contents(DraftFile(t))
  IN  IF draft.saved # None /\ ~Exists(RequestFile(draft.saved))
      THEN Detached(draft) ELSE draft

\* load_all, then Workspace::restore; a new tab when there is no draft.
Restore ==
  /\ phase' = "run"
  /\ timer' = {} /\ dialog' = NoDialog
  /\ saved' = LoadedSaved
  /\ IF OrderedDrafts # <<>>
     THEN /\ tabs' = OrderedDrafts
          /\ active' = LoadedActive
          /\ tab' = [t \in TabId |-> IF Exists(DraftFile(t)) THEN LoadedTab(t) ELSE Blank]
          /\ queue' = <<>>
          /\ UNCHANGED tabCount
     ELSE /\ tabCount < MaxTabs
          /\ tabCount' = tabCount + 1
          /\ tabs' = <<tabCount + 1>>
          /\ active' = 1
          /\ tab' = [t \in TabId |-> Blank]
          /\ queue' = NewTabWrites(tabCount + 1, <<tabCount + 1>>)
  /\ UNCHANGED <<ghosts, disk, saveCount, edits, faults>>

Restart == /\ phase = "quit"
           /\ Restore
           /\ UNCHANGED kills

\* The process is killed, or flush gives up after FLUSH_TIMEOUT: what is
\* queued is lost.  The program is then started again.
Kill ==
  /\ Running
  /\ faults + kills < MaxFailures
  /\ kills' = kills + 1
  /\ Restore

-----------------------------------------------------------------------------
User ==
  \/ \E t \in TabId : Edit(t)
  \/ NewTab \/ OpenTemplate
  \/ \E i \in DOMAIN tabs : DuplicateTab(i) \/ Activate(i) \/ CloseTab(i) \/ CloseOtherTabs(i)
  \/ CloseAllTabs
  \/ \E x \in DOMAIN saved : OpenSaved(x) \/ OpenDeleteDialog(x)
  \/ Overwrite
  \/ OpenSaveDialog \/ ConfirmSave \/ ConfirmDelete \/ CloseDialog
  \/ Quit

Process ==
  \/ \E t \in TabId : TimerFires(t)
  \/ Perform \/ PerformFails
  \/ Leave \/ Restart \/ Kill

Next == User \/ Process

Spec == Init /\ [][Next]_vars

\* Timers run out and the writer thread is scheduled; nothing makes the user
\* act or the program start again.
FairSpec == /\ Spec
            /\ \A t \in TabId : WF_vars(TimerFires(t))
            /\ WF_vars(Perform)

-----------------------------------------------------------------------------
(* Properties *)

\* No two tabs edit the same saved request ("whoever saves first would be
\* overwritten by the other", duplicate_tab; open_saved activates instead),
\* across restarts too; only a draft that could not be deleted breaks it.
OneTabPerSaved ==
  faults = 0 => \A i, j \in DOMAIN tabs :
    tab[tabs[i]].saved # None /\ tab[tabs[i]].saved = tab[tabs[j]].saved => i = j

\* A tab is linked to a request of the list only, after a kill between the
\* writes of one save too: overwrite_saved finds what it overwrites.
SavedLinkValid ==
  phase = "run" => \A i \in DOMAIN tabs :
    tab[tabs[i]].saved # None => tab[tabs[i]].saved \in DOMAIN saved

\* Links between tabs and saved requests are sound, after a restart at any point
\* of a save, too: one tab at most edits a saved request, and what a tab
\* overwrites when it saves is in the list (open_saved, overwrite_saved,
\* duplicate_tab, the restore of drafts).
LinksAreSound == TypeOK /\ OneTabPerSaved /\ SavedLinkValid

\* A tab without the changed mark shows what is saved ("whether there are
\* changes since the last save", RequestTab.dirty).
CleanTabsAgree ==
  phase = "run" => \A i \in DOMAIN tabs :
    LET t == tab[tabs[i]] IN
    ~t.dirty => IF t.saved = None THEN t.content = 0
                ELSE t.saved \in DOMAIN saved /\ t.content = saved[t.saved]

\* The same, for a process that was never killed and whose writes succeeded.
CleanMeansSaved == kills = 0 /\ faults = 0 => CleanTabsAgree

\* Once the timers and the writer are done, a restart would show this window:
\* no handler forgets to save what it changed.  Tabs that come back although
\* they were closed stand behind the others.
DurableWhenQuiet ==
  phase = "run" /\ queue = <<>> /\ timer = {} /\ faults = 0 =>
    /\ IsPrefix(tabs, OrderedDrafts)
    /\ LoadedActive = active
    /\ \A i \in DOMAIN tabs : LoadedTab(tabs[i]) = tab[tabs[i]]
    /\ LoadedSaved = saved

\* Closing tabs keeps the active tab active when it is not among them.
ClosingKeepsActive ==
  [][phase = "run" /\ kills' = kills /\ Len(tabs') < Len(tabs) =>
       \A i \in DOMAIN tabs' : tabs'[i] = tabs[active] => active' = i]_vars

\* After a quit that did not give up on the writer the same tabs are back, in
\* order, with every edit up to the last keystroke.
QuitLosesNothing ==
  [][phase = "quit" /\ phase' = "run" /\ faults = 0 =>
       /\ IsPrefix(tabs, tabs')
       /\ active' = active
       /\ \A i \in DOMAIN tabs : tab'[tabs[i]] = tab[tabs[i]]
       /\ saved' = saved]_vars

\* The tab strip stays as the user left it: every handler writes what it changed,
\* closing tabs moves the active one only when it goes, and a proper quit and the
\* next start change nothing (close_tab, persist_workspace, restore).
TabsStayAsLeft == []DurableWhenQuiet /\ ClosingKeepsActive /\ QuitLosesNothing

\* A tab that was closed does not come back ("closing a tab deletes its
\* draft", close_tab) after a proper quit, ...
ClosedStaysClosed ==
  [][phase = "quit" /\ phase' = "run" /\ faults = 0 =>
       \A i \in DOMAIN tabs' : IsOpen(tabs'[i]) \/ tabs'[i] > tabCount]_vars

\* ... unless the save dialog still held the tab when it was closed.
OnlyHeldTabsReturn ==
  [][phase = "quit" /\ phase' = "run" /\ faults = 0 =>
       \A i \in DOMAIN tabs' :
         IsOpen(tabs'[i]) \/ tabs'[i] > tabCount \/ tabs'[i] \in ghosts]_vars

\* A change to a tab reaches the files without any help from the user, whatever
\* else is written meanwhile, as long as the tab stays open and writes succeed.
Stored(t) == Exists(DraftFile(t)) /\ LoadedTab(t) = tab[t]
EditsReachDisk ==
  \A t \in TabId :
    (phase = "run" /\ IsOpen(t)) ~> (Stored(t) \/ ~IsOpen(t) \/ phase # "run" \/ faults > 0)

=============================================================================
