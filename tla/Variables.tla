----------------------------- MODULE Variables -----------------------------
(***************************************************************************)
(* The variables of the application and the groups of the saved requests:  *)
(* the table of variables all tabs share (state/variables.rs, model.rs),   *)
(* the tabs whose requests read it and write it (pre-operations when a     *)
(* request leaves, extractions when its answer arrives), the operations    *)
(* that move, rename and dissolve groups (state/workspace.rs), the filter  *)
(* of the side bar and the drawer that edits one page of the table         *)
(* (ui/variables_sheet.rs).                                                *)
(*                                                                         *)
(* All handlers run on the user-interface thread, one after the other; an  *)
(* answer arrives between any two of them.  A row keeps its key, its value *)
(* and its check mark.  The drawer covers the side bar, so groups are      *)
(* reorganised while it is closed; sending and saving are keyboard actions *)
(* and go on under it.                                                     *)
(***************************************************************************)
EXTENDS Integers, Sequences, FiniteSets, SequencesExt

CONSTANTS
    Requests,       \* the saved requests there may be
    Names,          \* the names of groups
    Tabs,           \* the tabs there may be
    Keys,           \* the names of variables
    Values,         \* the values of variables
    EnvIds,         \* the identities of environments
    NoGroup,        \* the group of a request without one
    None,           \* no request, no environment, no request under way
    MaxRows,        \* rows of one list of variables, in the drawer
    MaxChanges      \* changes a behaviour makes to the table of variables

ASSUME ConstantsAssumption ==
    /\ NoGroup \notin Names /\ None \notin Requests \cup EnvIds
    /\ MaxRows \in Nat /\ MaxChanges \in Nat

VARIABLES
    sets,       \* VariableSets: globals, environments, the active one, groups
    persist,    \* changes go to variables.json
    file,       \* what variables.json holds
    saved,      \* the saved requests: identity -> group
    tabs,       \* the open tabs: the saved request, its group, what the request under way extracts
    filter,     \* SavedFilter: "All", "Uncategorized" or a name
    sheet,      \* VariablesSheet
    changes     \* how often the table was changed, for the bound only

vars == <<sets, persist, file, saved, tabs, filter, sheet, changes>>

Scopes == {"Global", "Environment", "Group"}
Ops == [scope : Scopes, key : Keys]

(***************************************************************************)
(* VariableSets                                                            *)
(***************************************************************************)
Row(key, value) == [key |-> key, value |-> value, on |-> TRUE]

Ascending(seq) == \A i, j \in DOMAIN seq : i < j => seq[i] < seq[j]

\* The elements of a sequence at the places in I, in their order.
Picked(seq, I) ==
    LET at == CHOOSE places \in [1..Cardinality(I) -> I] : ToSet(places) = I /\ Ascending(places)
    IN  [k \in 1..Cardinality(I) |-> seq[at[k]]]

EnvIndex(s, id) == SelectInSeq(s.envs, LAMBDA e : e.id = id)

EnvVars(s, id) == IF EnvIndex(s, id) = 0 THEN <<>> ELSE s.envs[EnvIndex(s, id)].rows

\* The rows of a group; none for a request without a group.
GroupVars(s, group) == IF group \in DOMAIN s.groups THEN s.groups[group] ELSE <<>>

\* The row the substitution reads in one layer.
Read(rows, key) ==
    LET at == SelectInSeq(rows, LAMBDA r : r.on /\ r.key = key) IN
    IF at = 0 THEN None ELSE rows[at].value

\* The three layers, the highest first.
Lookup(s, group, key) ==
    LET layers == <<EnvVars(s, s.active), GroupVars(s, group), s.globals>>
        at == SelectInSeq(layers, LAMBDA rows : Read(rows, key) # None)
    IN  IF at = 0 THEN None ELSE Read(layers[at], key)

Writable(s, scope, group) ==
    CASE scope = "Global" -> TRUE
      [] scope = "Environment" -> EnvIndex(s, s.active) # 0
      [] scope = "Group" -> group # NoGroup

\* Writes the row the substitution reads; else wakes the first one that is off; else appends.
Written(rows, key, value) ==
    LET lit == SelectInSeq(rows, LAMBDA r : r.on /\ r.key = key)
        any == SelectInSeq(rows, LAMBDA r : r.key = key)
        at == IF lit # 0 THEN lit ELSE any
    IN  IF at = 0 THEN Append(rows, Row(key, value)) ELSE [rows EXCEPT ![at] = Row(key, value)]

WithGroup(s, group, rows) ==
    [s EXCEPT !.groups = [g \in DOMAIN s.groups \cup {group} |->
                            IF g = group THEN rows ELSE s.groups[g]]]

WithoutGroup(s, group) ==
    [s EXCEPT !.groups = [g \in DOMAIN s.groups \ {group} |-> s.groups[g]]]

SetVar(s, scope, group, key, value) ==
    IF ~Writable(s, scope, group) THEN s ELSE
    CASE scope = "Global" -> [s EXCEPT !.globals = Written(@, key, value)]
      [] scope = "Environment" -> [s EXCEPT !.envs[EnvIndex(s, s.active)].rows = Written(@, key, value)]
      [] scope = "Group" -> WithGroup(s, group, Written(GroupVars(s, group), key, value))

\* Variant: the rows that move win.
RenamedGroupOverwriting(s, from, to) ==
    IF from = to \/ from \notin DOMAIN s.groups THEN s
    ELSE WithGroup(WithoutGroup(s, from), to, s.groups[from])

\* The rows follow the name, each unless a row of its key is there by then: one the
\* new name had already, or an earlier one that moved.
RenamedGroup(s, from, to) ==
    IF from = to \/ from \notin DOMAIN s.groups THEN s
    ELSE LET target == GroupVars(s, to)
             own == s.groups[from]
             added == {i \in DOMAIN own : /\ \A j \in DOMAIN target : target[j].key # own[i].key
                                          /\ \A j \in DOMAIN own : j < i => own[j].key # own[i].key}
         IN  WithGroup(WithoutGroup(s, from), to, target \o Picked(own, added))

(***************************************************************************)
(* The drawer                                                              *)
(***************************************************************************)
DefaultEnv(s) ==
    IF EnvIndex(s, s.active) # 0 THEN s.active
    ELSE IF s.envs # <<>> THEN s.envs[1].id ELSE None

PageVars(s, page) ==
    CASE page.scope = "Global" -> s.globals
      [] page.scope = "Environment" -> EnvVars(s, page.env)
      [] page.scope = "Group" -> GroupVars(s, page.group)

Filled(s, page) == [page EXCEPT !.table = PageVars(s, page)]

\* Variant: the drawer is filled only when its environment went away.
ObservedWhenGone(s, page) ==
    IF EnvIndex(s, page.env) = 0 THEN Filled(s, [page EXCEPT !.env = DefaultEnv(s)]) ELSE page

\* on_variables_changed: runs after every change of the table of variables.
Observed(s, page) ==
    Filled(s, IF EnvIndex(s, page.env) = 0 THEN [page EXCEPT !.env = DefaultEnv(s)] ELSE page)

\* commit_table: the rows of the drawer replace those of its page.
Committed(s, page, rows) ==
    CASE page.scope = "Global" -> [s EXCEPT !.globals = rows]
      [] page.scope = "Environment" ->
            IF EnvIndex(s, page.env) = 0 THEN s ELSE [s EXCEPT !.envs[EnvIndex(s, page.env)].rows = rows]
      [] page.scope = "Group" ->
            CASE page.group = NoGroup -> s
              [] page.group # NoGroup /\ rows = <<>> -> WithoutGroup(s, page.group)
              [] OTHER -> WithGroup(s, page.group, rows)

\* Variant: the handle that is installed forgets that the file was unreadable.
UpdateForgetting(next, page) ==
    /\ sets' = next
    /\ sheet' = IF next = sets THEN page ELSE Observed(next, page)
    /\ file' = IF next # sets /\ persist THEN next ELSE file
    /\ changes' = IF next = sets THEN changes ELSE changes + 1
    /\ persist' = (persist \/ next # sets)

\* variables::update: the changed copy is written and installed, and the
\* drawer, shown as page, hears of it; a copy without a change does nothing.
Update(next, page) ==
    /\ sets' = next
    /\ sheet' = IF next = sets THEN page ELSE Observed(next, page)
    /\ file' = IF next # sets /\ persist THEN next ELSE file
    /\ changes' = IF next = sets THEN changes ELSE changes + 1
    /\ UNCHANGED persist

(***************************************************************************)
(* Groups and the filter                                                   *)
(***************************************************************************)
Groups(list) == {list[r] : r \in DOMAIN list} \ {NoGroup}

FilterValid(f, list) ==
    CASE f = "All" -> TRUE
      [] f = "Uncategorized" -> \E r \in DOMAIN list : list[r] = NoGroup
      [] OTHER -> f \in Groups(list)

ValidFilter(f, list) == IF FilterValid(f, list) THEN f ELSE "All"

Open == {t \in Tabs : tabs[t] # None}
Tab(id, group) == [id |-> id, group |-> group, extract |-> None]

\* Variant: the open tabs keep the group they were opened with.
RetagListOnly(list, chosen) ==
    LET changed == {r \in DOMAIN saved : list[r] # saved[r]} IN
    /\ saved' = list
    /\ tabs' = tabs
    /\ filter' = IF changed = {} THEN chosen ELSE ValidFilter(chosen, list)

\* retag_saved: requests whose group changes are rewritten, their tabs follow
\* and the filter is looked at; when nothing changes nothing is done.
Retag(list, chosen) ==
    LET changed == {r \in DOMAIN saved : list[r] # saved[r]} IN
    /\ saved' = list
    /\ tabs' = [t \in Tabs |-> IF t \in Open /\ tabs[t].id \in changed
                               THEN [tabs[t] EXCEPT !.group = list[tabs[t].id]] ELSE tabs[t]]
    /\ filter' = IF changed = {} THEN chosen ELSE ValidFilter(chosen, list)

(***************************************************************************)
(* Start: variables.json and the saved requests are read.  A file that is  *)
(* there and cannot be read counts as empty, and is never written.         *)
(***************************************************************************)
\* Two rows of one name, the first one off.
Twice(key, value) == <<[Row(key, value) EXCEPT !.on = FALSE], Row(key, value)>>

OnlyGroup(group, rows) == [g \in {group} |-> rows]

\* What variables.json may hold: nothing, or two rows in both of its lists.
StoredBefore ==
    {[globals |-> <<>>, groups |-> << >>]}
    \cup {[globals |-> Twice(k, v), groups |-> OnlyGroup(g, Twice(k, v))] :
           g \in Names, k \in Keys, v \in Values}

Init ==
    /\ \E stored \in StoredBefore, env \in EnvIds, activated \in BOOLEAN :
            sets = [globals |-> stored.globals, groups |-> stored.groups,
                    envs |-> <<[id |-> env, rows |-> <<>>]>>, active |-> IF activated THEN env ELSE None]
    /\ persist \in BOOLEAN /\ (~persist => sets.globals = <<>>)
    /\ file = IF persist THEN sets ELSE None
    /\ saved \in [Requests -> Names \cup {NoGroup}]
    /\ tabs = [t \in Tabs |-> None]
    /\ filter = "All"
    /\ sheet = [open |-> FALSE, scope |-> "Global", env |-> None, group |-> NoGroup, table |-> <<>>]
    /\ changes = 0

Bounded == changes < MaxChanges

(***************************************************************************)
(* Tabs and saved requests                                                 *)
(***************************************************************************)
NewTab(t) ==
    /\ t \notin Open
    /\ tabs' = [tabs EXCEPT ![t] = Tab(None, NoGroup)]
    /\ UNCHANGED <<sets, persist, file, saved, filter, sheet, changes>>

\* open_saved: a request that has a tab is shown there, one without gets a tab.
OpenSaved(t, r) ==
    /\ ~sheet.open /\ t \notin Open /\ r \in DOMAIN saved
    /\ \A u \in Open : tabs[u].id # r
    /\ tabs' = [tabs EXCEPT ![t] = Tab(r, saved[r])]
    /\ UNCHANGED <<sets, persist, file, saved, filter, sheet, changes>>

CloseTab(t) ==
    /\ t \in Open
    /\ tabs' = [tabs EXCEPT ![t] = None]
    /\ UNCHANGED <<sets, persist, file, saved, filter, sheet, changes>>

\* finish_save: the tab becomes a new saved request.
FinishSave(t, r, group) ==
    /\ t \in Open /\ tabs[t].id = None /\ r \notin DOMAIN saved
    /\ saved' = [q \in DOMAIN saved \cup {r} |-> IF q = r THEN group ELSE saved[q]]
    /\ tabs' = [tabs EXCEPT ![t].id = r, ![t].group = group]
    /\ UNCHANGED <<sets, persist, file, filter, sheet, changes>>

\* overwrite_saved: the saved request keeps its group, and the tab takes it.
OverwriteSaved(t) ==
    /\ t \in Open /\ tabs[t].id \in DOMAIN saved
    /\ tabs' = [tabs EXCEPT ![t].group = saved[tabs[t].id]]
    /\ UNCHANGED <<sets, persist, file, saved, filter, sheet, changes>>

\* Variant: the filter is not looked at.
DeleteSavedOnly(r) ==
    /\ ~sheet.open /\ r \in DOMAIN saved
    /\ saved' = [q \in DOMAIN saved \ {r} |-> saved[q]]
    /\ tabs' = [t \in Tabs |-> IF t \in Open /\ tabs[t].id = r
                               THEN [tabs[t] EXCEPT !.id = None, !.group = NoGroup] ELSE tabs[t]]
    /\ UNCHANGED <<sets, persist, file, filter, sheet, changes>>

DeleteSaved(r) ==
    /\ ~sheet.open /\ r \in DOMAIN saved
    /\ saved' = [q \in DOMAIN saved \ {r} |-> saved[q]]
    /\ tabs' = [t \in Tabs |-> IF t \in Open /\ tabs[t].id = r
                               THEN [tabs[t] EXCEPT !.id = None, !.group = NoGroup] ELSE tabs[t]]
    /\ filter' = ValidFilter(filter, saved')
    /\ UNCHANGED <<sets, persist, file, sheet, changes>>

SetSavedFilter(f) ==
    /\ ~sheet.open /\ f # filter /\ FilterValid(f, saved)
    /\ filter' = f
    /\ UNCHANGED <<sets, persist, file, saved, tabs, sheet, changes>>

MoveSavedToGroup(r, group) ==
    /\ ~sheet.open /\ r \in DOMAIN saved
    /\ Retag([saved EXCEPT ![r] = group], filter)
    /\ UNCHANGED <<sets, persist, file, sheet, changes>>

\* The groups of the side bar are those with members.
RenameGroup(from, to) ==
    /\ ~sheet.open /\ Bounded /\ from \in Groups(saved) /\ from # to
    /\ Retag([r \in DOMAIN saved |-> IF saved[r] = from THEN to ELSE saved[r]],
             IF filter = from THEN to ELSE filter)
    /\ Update(RenamedGroup(sets, from, to), sheet)

DissolveGroup(name) ==
    /\ ~sheet.open /\ Bounded /\ name \in Groups(saved)
    /\ Retag([r \in DOMAIN saved |-> IF saved[r] = name THEN NoGroup ELSE saved[r]], filter)
    /\ Update(WithoutGroup(sets, name), sheet)

(***************************************************************************)
(* Requests under way                                                      *)
(***************************************************************************)
\* prepare_send: the pre-operation runs on a copy of the table.
Prepared(t, pre, value) ==
    IF pre = None THEN sets ELSE SetVar(sets, pre.scope, tabs[t].group, pre.key, value)

\* send: the copy is installed when the request can leave, and dropped when not.
Send(t, pre, value, extract) ==
    /\ Bounded /\ t \in Open /\ tabs[t].extract = None
    /\ \/ /\ tabs' = [tabs EXCEPT ![t].extract = extract]
          /\ Update(Prepared(t, pre, value), sheet)
       \/ UNCHANGED <<tabs, sets, persist, file, sheet, changes>>
    /\ UNCHANGED <<saved, filter>>

\* apply_outcome: the extracted value goes to the group the request has by now.
Respond(t, value) ==
    /\ Bounded /\ t \in Open /\ tabs[t].extract # None
    /\ tabs' = [tabs EXCEPT ![t].extract = None]
    /\ LET op == tabs[t].extract IN
       Update(SetVar(sets, op.scope, tabs[t].group, op.key, value), sheet)
    /\ UNCHANGED <<saved, filter>>

\* cancel, clear_response and an answer without a value: nothing is extracted.
EndWithout(t) ==
    /\ t \in Open /\ tabs[t].extract # None
    /\ tabs' = [tabs EXCEPT ![t].extract = None]
    /\ UNCHANGED <<sets, persist, file, saved, filter, sheet, changes>>

(***************************************************************************)
(* The drawer                                                              *)
(***************************************************************************)
Candidates == Groups(saved) \cup DOMAIN sets.groups

\* The page shown when none is named is the first one; any order is taken.
OpenSheet(scope, group) ==
    /\ ~sheet.open /\ (IF Candidates = {} THEN group = NoGroup ELSE group \in Candidates)
    /\ sheet' = Filled(sets, [open |-> TRUE, scope |-> scope, env |-> DefaultEnv(sets),
                              group |-> group, table |-> <<>>])
    /\ UNCHANGED <<sets, persist, file, saved, tabs, filter, changes>>

CloseSheet ==
    /\ sheet.open
    /\ sheet' = [sheet EXCEPT !.open = FALSE]
    /\ UNCHANGED <<sets, persist, file, saved, tabs, filter, changes>>

\* set_scope, select_env and the choice of a group: the table is filled anew.
TurnPage(page) ==
    /\ sheet.open /\ page # sheet
    /\ sheet' = Filled(sets, page)
    /\ UNCHANGED <<sets, persist, file, saved, tabs, filter, changes>>

SetScope(scope) == TurnPage([sheet EXCEPT !.scope = scope])
SelectEnv(i) == i \in DOMAIN sets.envs /\ TurnPage([sheet EXCEPT !.env = sets.envs[i].id])
SelectGroup(group) == group \in Candidates /\ TurnPage([sheet EXCEPT !.group = group])

\* What one edit makes of the rows: a value, a check mark, a new row, a removal.
Edited(rows) ==
    {[rows EXCEPT ![i].value = v] : i \in DOMAIN rows, v \in Values}
    \cup {[rows EXCEPT ![i].on = ~@] : i \in DOMAIN rows}
    \cup {RemoveAt(rows, i) : i \in DOMAIN rows}
    \cup (IF Len(rows) < MaxRows THEN {Append(rows, Row(k, v)) : k \in Keys, v \in Values} ELSE {})

\* Without an environment or a group a hint stands where the table would.
PageExists ==
    CASE sheet.scope = "Global" -> TRUE
      [] sheet.scope = "Environment" -> sheet.env # None
      [] sheet.scope = "Group" -> sheet.group # NoGroup

EditTable(rows) ==
    /\ sheet.open /\ PageExists /\ Bounded /\ rows # sheet.table
    /\ Update(Committed(sets, sheet, rows), [sheet EXCEPT !.table = rows])
    /\ UNCHANGED <<saved, tabs, filter>>

NewEnv(id) ==
    /\ sheet.open /\ Bounded /\ EnvIndex(sets, id) = 0
    /\ LET next == [sets EXCEPT !.envs = Append(@, [id |-> id, rows |-> <<>>])] IN
       Update(next, Filled(next, [sheet EXCEPT !.env = id]))
    /\ UNCHANGED <<saved, tabs, filter>>

\* delete_env: an environment in use stops being used.
DeleteEnv ==
    /\ sheet.open /\ Bounded /\ EnvIndex(sets, sheet.env) # 0
    /\ LET next == [sets EXCEPT !.envs = Picked(@, {i \in DOMAIN @ : @[i].id # sheet.env}),
                                !.active = IF @ = sheet.env THEN None ELSE @]
       IN  Update(next, Filled(next, [sheet EXCEPT !.env = DefaultEnv(next)]))
    /\ UNCHANGED <<saved, tabs, filter>>

\* set_active_environment, from the drawer and from the switcher of the tab bar.
SetActiveEnvironment(id) ==
    /\ Bounded /\ (id = None \/ EnvIndex(sets, id) # 0)
    /\ Update([sets EXCEPT !.active = id], sheet)
    /\ UNCHANGED <<saved, tabs, filter>>

\* apply_import: the answer of the file dialog may come after the drawer closed.
ImportEnvironment(id, rows) ==
    /\ Bounded /\ EnvIndex(sets, id) = 0
    /\ LET next == [sets EXCEPT !.envs = Append(@, [id |-> id, rows |-> rows]), !.active = id] IN
       Update(next, Filled(next, [sheet EXCEPT !.scope = "Environment", !.env = id]))
    /\ UNCHANGED <<saved, tabs, filter>>

\* A row with the same key is replaced, check mark and all.
ImportGlobals(row) ==
    /\ Bounded
    /\ LET at == SelectInSeq(sets.globals, LAMBDA g : g.key = row.key)
           next == [sets EXCEPT !.globals = IF at = 0 THEN Append(@, row) ELSE [@ EXCEPT ![at] = row]]
       IN  Update(next, Filled(next, [sheet EXCEPT !.scope = "Global"]))
    /\ UNCHANGED <<saved, tabs, filter>>

Organise ==
    \/ \E t \in Tabs : NewTab(t) \/ CloseTab(t) \/ OverwriteSaved(t)
    \/ \E t \in Tabs, r \in Requests : OpenSaved(t, r)
    \/ \E t \in Tabs, r \in Requests, g \in Names \cup {NoGroup} : FinishSave(t, r, g)
    \/ \E r \in Requests : DeleteSaved(r)
    \/ \E r \in Requests, g \in Names \cup {NoGroup} : MoveSavedToGroup(r, g)
    \/ \E f \in Names \cup {"All", "Uncategorized"} : SetSavedFilter(f)
    \/ \E from, to \in Names : RenameGroup(from, to)
    \/ \E g \in Names : DissolveGroup(g)

Exchange ==
    \/ \E t \in Tabs, pre, extract \in Ops \cup {None}, v \in Values : Send(t, pre, v, extract)
    \/ \E t \in Tabs, v \in Values : Respond(t, v)
    \/ \E t \in Tabs : EndWithout(t)

Drawer ==
    \/ \E scope \in Scopes, g \in Names \cup {NoGroup} : OpenSheet(scope, g)
    \/ CloseSheet \/ DeleteEnv
    \/ \E scope \in Scopes : SetScope(scope)
    \/ \E i \in DOMAIN sets.envs : SelectEnv(i)
    \/ \E g \in Names : SelectGroup(g)
    \/ \E rows \in Edited(sheet.table) : EditTable(rows)
    \/ \E id \in EnvIds : NewEnv(id)
    \/ \E id \in EnvIds \cup {None} : SetActiveEnvironment(id)
    \/ \E id \in EnvIds, k \in Keys, v \in Values : ImportEnvironment(id, <<Row(k, v)>>)
    \/ \E k \in Keys, v \in Values : ImportGlobals(Row(k, v))

Next == Organise \/ Exchange \/ Drawer

Spec == Init /\ [][Next]_vars

-----------------------------------------------------------------------------
(***************************************************************************)
(* Properties                                                              *)
(***************************************************************************)
VarRows == Seq([key : Keys, value : Values, on : BOOLEAN])

\* The table, the tabs, the filter and the drawer have their types; the file
\* holds a table or was not read.
TypeOK ==
    /\ sets.globals \in VarRows /\ sets.active \in EnvIds \cup {None}
    /\ \A i \in DOMAIN sets.envs : sets.envs[i].id \in EnvIds /\ sets.envs[i].rows \in VarRows
    /\ DOMAIN sets.groups \subseteq Names /\ \A g \in DOMAIN sets.groups : sets.groups[g] \in VarRows
    /\ persist \in BOOLEAN /\ changes \in 0..MaxChanges
    /\ DOMAIN saved \subseteq Requests /\ \A r \in DOMAIN saved : saved[r] \in Names \cup {NoGroup}
    /\ tabs \in [Tabs -> {None} \cup [id : Requests \cup {None}, group : Names \cup {NoGroup},
                                     extract : Ops \cup {None}]]
    /\ sheet.scope \in Scopes /\ sheet.env \in EnvIds \cup {None} /\ sheet.table \in VarRows

\* A tab that shows a saved request has its group, whatever was renamed,
\* moved, dissolved, deleted or saved since; a tab without one has no group.
\* Sending and extracting trust this copy (request_tab.rs send, apply_outcome).
GroupCopyIsCurrent ==
    \A t \in Open :
        IF tabs[t].id = None THEN tabs[t].group = NoGroup
        ELSE tabs[t].id \in DOMAIN saved /\ tabs[t].group = saved[tabs[t].id]

\* The side bar never filters by a group nobody is in (workspace.rs
\* rename_group, retag_saved, delete_saved).
FilterHasMembers == FilterValid(filter, saved)

\* While the drawer is open its rows are those of its page, whoever wrote them
\* last: an edit of one row never takes back what an answer, a pre-operation or
\* an import wrote to another one (variables_sheet.rs on_variables_changed,
\* commit_table).  The environment in use and the one shown exist.
DrawerShowsStored ==
    /\ sheet.open => sheet.table = PageVars(sets, sheet)
    /\ sheet.open /\ sets.envs # <<>> => EnvIndex(sets, sheet.env) # 0
    /\ sets.active # None => EnvIndex(sets, sets.active) # 0

\* variables.json holds what the application shows; a file that could not be
\* read at the start is left alone (state/variables.rs update, should_persist).
FileFollows == file = IF persist THEN sets ELSE None

\* Groups and variables are kept in several places at once - the saved request
\* and the tab, the store and the drawer, the store and its file, the groups and
\* the filter of the side bar - and each handler updates them itself: after each
\* one, every copy is the current value.
CopiesAreCurrent == TypeOK /\ GroupCopyIsCurrent /\ FilterHasMembers /\ DrawerShowsStored /\ FileFollows

\* Rows appear under the name of a group only while a request has that group or
\* the drawer edits it: an answer that arrives after its group was renamed or
\* dissolved does not bring the name back (request_tab.rs apply_outcome).
NoRevival ==
    [][\A g \in DOMAIN sets'.groups \ DOMAIN sets.groups :
          g \in Groups(saved') \/ (sheet.open /\ sheet.scope = "Group" /\ sheet.group = g)]_vars

\* The value of a name when only its first row counts, whether it is on or off.
FirstRow(rows, key) ==
    LET at == SelectInSeq(rows, LAMBDA r : r.key = key) IN
    IF at # 0 /\ rows[at].on THEN rows[at].value ELSE None

\* Renaming a group changes no value its requests read in it, except those the
\* new name already gave and those of rows behind another row of their name,
\* which do not move along (model.rs rename_group, workspace.rs rename_group).
RenameKeepsValues ==
    [][\A from, to \in Names, k \in Keys : RenameGroup(from, to) =>
          LET there == \E i \in DOMAIN GroupVars(sets, to) : GroupVars(sets, to)[i].key = k IN
          Read(GroupVars(sets', to), k) =
            IF there THEN Read(GroupVars(sets, to), k) ELSE FirstRow(GroupVars(sets, from), k)]_vars
=============================================================================
