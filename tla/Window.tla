------------------------------- MODULE Window -------------------------------
(***************************************************************************)
(* The window around the tabs (state/workspace.rs): the tab strip and its  *)
(* pages (ui/tab_strip.rs), the panel on the left, the sheets that slide   *)
(* in from the right (ui/code_sheet.rs, ui/curl_sheet.rs), the target of   *)
(* the load test (ui/load_sheet.rs), what of it is written to              *)
(* workspace.json, the updater that the status bar observes, and the       *)
(* import of recorded requests, which the window shows when it is opened   *)
(* again.                                                                  *)
(*                                                                         *)
(* These parts share the list of tabs and workspace.json; a behaviour uses *)
(* one of them: the bound UsedPart.  Widths are counted in tabs.           *)
(***************************************************************************)
EXTENDS Updater, Importer, FiniteSets, SequencesExt

CONSTANTS
    MaxTabs,    \* bound: tabs, for each part of the window
    MaxTabRows, \* MAX_TAB_ROWS
    StripWidths, \* how many tabs a row may hold, as the window is resized
    Widths,     \* widths the panel can be dragged to
    Drafts,     \* requests
    NewDraft,   \* the empty one of a new tab
    Malformed,  \* those that no code can be generated for
    Commands,   \* texts pasted as curl commands: a request, or one that cannot be parsed
    Environments,
    Hosts,      \* hosts that a URL can name, also as {{name}}
    DraftHost,  \* the host of each request, None when its URL names none
    None        \* nothing, no width, no host

Parts == {"strip", "panel", "sheets", "load", "updates", "import"}
Tools == {"CodeGen", "ImportCurl", "Variables"}

ASSUME WindowAssumption ==
    /\ MaxTabs \in [Parts -> Nat \ {0}] /\ DraftHost \in [Drafts -> Hosts \cup {None}] /\ MaxTabRows \in Nat \ {0, 1}
    /\ StripWidths \subseteq Nat
    /\ NewDraft \in Drafts /\ Malformed \subseteq Drafts /\ None \notin Drafts \cup Widths \cup Tools

VARIABLES
    part,       \* the part of the window that is used
    tabs,       \* the tabs in their order
    active,     \* the active one
    drafts,     \* the request in each tab
    rows, page, \* rows of the strip, and the page shown when there are several
    perRow,     \* strip_width
    panel,      \* the panel on the left: collapsed, section, both widths
    look,       \* theme and split
    written,    \* the WorkspaceState handed to the writer last
    openTool,   \* open_tool
    sheet,      \* the sheet the window shows
    code,       \* the sheet of generated code
    pasted,     \* the text in the sheet that imports curl commands, and what it means
    env,        \* the active environment
    load,       \* the load test: target, method and URL shown, what it sends
    host,       \* what the load test shows of the host
    lookups     \* lookups of hosts that are under way and will be delivered

stripVars == <<tabs, active, drafts, rows, page, perRow>>
toolVars  == <<openTool, sheet, code, pasted, env>>
loadVars  == <<load, host, lookups>>
vars == <<part, stripVars, panel, look, written, toolVars, loadVars, updaterVars, importVars>>

Sections == {"Saved", "Templates", "LoadTest", "Recorder"}
Targets  == {"Curl", "Python"}
\* No target was chosen for the load test yet.
NoLoad   == [draft |-> None, method |-> None, url |-> None, base |-> None, phase |-> "Idle", sent |-> None]
NoHost   == [for |-> None, is |-> "Unknown", name |-> None]
Themes   == {"System", "Light", "Dark"}

(***************************************************************************)
(* workspace.json                                                          *)
(***************************************************************************)
WorkspaceState ==
    [order |-> tabs, active |-> tabs[active], width |-> panel.width,
     collapsed |-> panel.collapsed, look |-> look, rows |-> rows]

PersistWorkspace == written' = WorkspaceState'

(***************************************************************************)
(* The tab strip and its pages                                             *)
(***************************************************************************)
AtLeastOne(n) == IF n = 0 THEN 1 ELSE n

\* tabs_per_page: a strip that was not measured yet holds one tab per row.
TabsPerPage(width, n) == AtLeastOne(width) * n

\* page_count
PageCount(total, perPage) == AtLeastOne((total + perPage - 1) \div perPage)

Least(a, b) == IF a < b THEN a ELSE b

\* render_paged_rows: pages count from zero, and the last one stands for those beyond.
ShownPage == Least(page, PageCount(Len(tabs), TabsPerPage(perRow, rows)) - 1)

ShownTabs ==
    LET size == TabsPerPage(perRow, rows)
    IN  SubSeq(tabs, ShownPage * size + 1, Least((ShownPage + 1) * size, Len(tabs)))

RevealedByRow(ix, n, old) == IF n > 1 THEN (ix - 1) \div AtLeastOne(perRow) ELSE old

\* reveal_active_tab; a single row scrolls instead.
Revealed(ix, n, old) == IF n > 1 THEN (ix - 1) \div TabsPerPage(perRow, n) ELSE old

TabIds == 1..(MaxTabs[part] + 1)

\* The tab that is created while those of used exist.
FreshTab(used) == CHOOSE t \in TabIds : t \notin used /\ 1..(t - 1) \subseteq used

CanOpen == Len(tabs) < MaxTabs[part]

ArrangeUnrevealed(ts, ix) ==
    /\ tabs' = ts /\ active' = ix
    /\ page' = page
    /\ UNCHANGED <<rows, perRow>>
    /\ PersistWorkspace

\* Afterwards the tabs are ts, the active one is ix, it is revealed and written.
Arrange(ts, ix) ==
    /\ tabs' = ts /\ active' = ix
    /\ page' = Revealed(ix, rows, page)
    /\ UNCHANGED <<rows, perRow>>
    /\ PersistWorkspace

\* new_tab, with the request that open_draft_in_new_tab or duplicate_tab fill in.
OpenTab(at, d) ==
    /\ CanOpen
    /\ LET t == FreshTab(ToSet(tabs))
       IN  drafts' = [drafts EXCEPT ![t] = d] /\ Arrange(InsertAt(tabs, at, t), at)

NewTab == OpenTab(Len(tabs) + 1, NewDraft)

DuplicateTab == \E ix \in 1..Len(tabs) : OpenTab(ix + 1, drafts[tabs[ix]])

\* close_tab with active_after_close: the last tab is replaced by a new one.
ActiveAfterClose(ix) ==
    IF active > Len(tabs) - 1 THEN Len(tabs) - 1 ELSE IF ix < active THEN active - 1 ELSE active

CloseTab ==
    \E ix \in 1..Len(tabs) :
        /\ IF Len(tabs) = 1 THEN Arrange(<<FreshTab(ToSet(tabs))>>, 1)
           ELSE Arrange(RemoveAt(tabs, ix), ActiveAfterClose(ix))
        /\ UNCHANGED drafts

CloseOtherTabs ==
    /\ Len(tabs) > 1
    /\ \E keep \in 1..Len(tabs) : Arrange(<<tabs[keep]>>, 1)
    /\ UNCHANGED drafts

CloseAllTabs ==
    /\ Arrange(<<FreshTab(ToSet(tabs))>>, 1)
    /\ UNCHANGED drafts

Activate ==
    /\ \E ix \in 1..Len(tabs) \ {active} : Arrange(tabs, ix)
    /\ UNCHANGED drafts

\* step_tabs in several rows, by the buttons, which are disabled at the ends.
StepTabs ==
    /\ rows > 1
    /\ LET last == PageCount(Len(tabs), TabsPerPage(perRow, rows)) - 1
       IN  \/ /\ ShownPage > 0
              /\ page' = Least(page - 1, last)
           \/ /\ ShownPage < last
              /\ page' = Least(page + 1, last)
    /\ UNCHANGED <<tabs, active, drafts, rows, perRow, written>>

ToggleTabRows ==
    /\ rows' = IF rows > 1 THEN 1 ELSE MaxTabRows
    /\ page' = Revealed(active, rows', page)
    /\ UNCHANGED <<tabs, active, drafts, perRow>>
    /\ PersistWorkspace

\* The strip is laid out in a window of another width.
Measure ==
    /\ perRow' \in StripWidths \ {perRow}
    /\ UNCHANGED <<tabs, active, drafts, rows, page, written>>

\* The program ends and restore builds the window from workspace.json; the
\* active tab is revealed once its strip has been laid out.
Reopen ==
    /\ tabs' = written.order
    /\ active' = CHOOSE ix \in 1..Len(tabs') : tabs'[ix] = written.active
    /\ rows' = written.rows
    /\ page' = Revealed(active', rows', 0)
    /\ panel' = [collapsed |-> written.collapsed, section |-> "Saved",
                 width |-> written.width, narrow |-> None]
    /\ look' = written.look
    /\ load' = NoLoad /\ host' = NoHost /\ lookups' = {}
    /\ UNCHANGED <<drafts, perRow, written>>

Strip ==
    /\ UNCHANGED <<part, panel, look, toolVars, loadVars, updaterVars, importVars>>
    /\ NewTab \/ DuplicateTab \/ CloseTab \/ CloseOtherTabs \/ CloseAllTabs \/ Activate
       \/ StepTabs \/ ToggleTabRows \/ Measure \/ Reopen

(***************************************************************************)
(* The panel on the left                                                   *)
(***************************************************************************)
\* narrow_section
Narrow(section) == section \in {"Recorder", "LoadTest"}

\* make_load_target: the URL in the panel is the expanded one.
ExpandedUrl(d) == [draft |-> d, env |-> env, typed |-> None, open |-> FALSE]

\* variables::resolve: what is typed may refer to variables.
Filled(url) == IF url.open THEN [url EXCEPT !.env = env, !.open = FALSE] ELSE url

LookUpAsWell(h) ==
    /\ lookups' = IF h = None THEN lookups ELSE lookups \cup {h}
    /\ host' = [for |-> h, is |-> IF h = None THEN "Unknown" ELSE "Loading", name |-> None]

\* lookup_host: the answer to an earlier lookup is no longer waited for.
LookUp(h) ==
    /\ lookups' = IF h = None THEN {} ELSE {h}
    /\ host' = [for |-> h, is |-> IF h = None THEN "Unknown" ELSE "Loading", name |-> None]

\* set_target, which does nothing while a test runs.
SetLoadTarget(d) ==
    IF load.phase = "Running" THEN UNCHANGED loadVars
    ELSE /\ load' = [draft |-> d, method |-> d, url |-> ExpandedUrl(d), base |-> ExpandedUrl(d),
                     phase |-> "Idle", sent |-> load.sent]
         /\ LookUp(DraftHost[d])

\* open_sidebar_section
OpenSection ==
    /\ \E s \in Sections :
          /\ panel' = IF ~panel.collapsed /\ panel.section = s
                      THEN [panel EXCEPT !.collapsed = TRUE]
                      ELSE [panel EXCEPT !.collapsed = FALSE, !.section = s]
          /\ IF ~panel'.collapsed /\ s = "LoadTest" /\ load.draft = None
             THEN SetLoadTarget(drafts[tabs[active]]) ELSE UNCHANGED loadVars
    /\ UNCHANGED <<look, stripVars>>
    /\ PersistWorkspace

ToggleSidebar ==
    /\ panel' = [panel EXCEPT !.collapsed = ~@]
    /\ UNCHANGED <<look, stripVars, loadVars>>
    /\ PersistWorkspace

\* on_sidebar_resized
ResizePanel ==
    /\ ~panel.collapsed
    /\ \E w \in Widths :
          IF Narrow(panel.section)
          THEN panel' = [panel EXCEPT !.narrow = w] /\ UNCHANGED <<look, stripVars, written>>
          ELSE /\ panel' = [panel EXCEPT !.width = w]
               /\ UNCHANGED <<look, stripVars>>
               /\ IF w # panel.width THEN PersistWorkspace ELSE UNCHANGED written
    /\ UNCHANGED loadVars

ChangeLookUnwritten ==
    /\ \E t \in Themes, s \in {"Vertical", "Horizontal"} :
          /\ <<t, s>> # look /\ (t = look[1] \/ s = look[2])
          /\ look' = <<t, s>>
    /\ UNCHANGED <<panel, stripVars, loadVars, written>>

\* set_theme, set_split
ChangeLook ==
    /\ \E t \in Themes, s \in {"Vertical", "Horizontal"} :
          /\ <<t, s>> # look /\ (t = look[1] \/ s = look[2])
          /\ look' = <<t, s>>
    /\ UNCHANGED <<panel, stripVars, loadVars>>
    /\ PersistWorkspace

Panel ==
    /\ UNCHANGED <<part, toolVars, updaterVars, importVars>>
    /\ OpenSection \/ ToggleSidebar \/ ResizePanel \/ ChangeLook \/ Reopen

(***************************************************************************)
(* The sheets on the right                                                 *)
(***************************************************************************)
NoCode == [draft |-> None, env |-> None, target |-> "Curl", text |-> <<>>]

\* CodeSheet::regenerate: the code, or nothing when the request is malformed.
Generated(d, e, target) == IF d = None \/ d \in Malformed THEN <<>> ELSE <<d, e, target>>

\* refresh_code_sheet: the request of the active tab, expanded now.
RefreshCode(e) ==
    LET d == drafts[tabs[active]]
    IN  code' = [draft |-> d, env |-> e, target |-> code.target, text |-> Generated(d, e, code.target)]

\* open_tool_section: the tool that is open is closed, another one takes its place.
ClickTool ==
    /\ \E t \in Tools :
          IF openTool = t
          THEN openTool' = None /\ sheet' = None /\ UNCHANGED code
          ELSE /\ openTool' = t /\ sheet' = t
               /\ IF t = "CodeGen" THEN RefreshCode(env) ELSE UNCHANGED code
    /\ UNCHANGED <<stripVars, written, pasted, env>>

\* The sheet is left by its close button, Escape or a click beside it.
DismissSheet ==
    /\ sheet # None /\ sheet' = None
    /\ UNCHANGED <<stripVars, written, openTool, code, pasted, env>>

SelectEnvironmentOnly ==
    /\ env' \in Environments \ {env}
    /\ UNCHANGED <<stripVars, written, openTool, sheet, pasted, code>>

\* select_environment
SelectEnvironment ==
    /\ \E e \in Environments \ {env} :
          /\ env' = e
          /\ IF openTool = "CodeGen" THEN RefreshCode(e) ELSE UNCHANGED code
    /\ UNCHANGED <<stripVars, written, openTool, sheet, pasted>>

\* CodeSheet::set_target
SelectTarget ==
    /\ sheet = "CodeGen"
    /\ \E t \in Targets \ {code.target} :
          code' = [code EXCEPT !.target = t, !.text = Generated(code.draft, code.env, t)]
    /\ UNCHANGED <<stripVars, written, openTool, sheet, pasted, env>>

\* CurlSheet::reparse: what is typed is parsed at once.
Paste ==
    /\ sheet = "ImportCurl"
    /\ \E c \in Commands \cup {None} : pasted' = c
    /\ UNCHANGED <<stripVars, written, openTool, sheet, code, env>>

\* import_curl: its request becomes a new tab, the input is emptied and the sheet closed.
ImportCurl ==
    /\ sheet = "ImportCurl" /\ pasted \in Drafts
    /\ OpenTab(Len(tabs) + 1, pasted)
    /\ pasted' = None /\ openTool' = None /\ sheet' = None
    /\ UNCHANGED <<code, env>>

\* The keys of the window work above a sheet; the editor of a tab is covered by it.
EditTab ==
    /\ sheet = None
    /\ \E d \in Drafts : drafts' = [drafts EXCEPT ![tabs[active]] = d]
    /\ UNCHANGED <<tabs, active, rows, page, perRow, written, toolVars>>

OpenByKey == (NewTab \/ DuplicateTab) /\ UNCHANGED toolVars

Sheets ==
    /\ UNCHANGED <<part, panel, look, loadVars, updaterVars, importVars>>
    /\ ClickTool \/ DismissSheet \/ SelectEnvironment \/ SelectTarget \/ Paste \/ ImportCurl
       \/ EditTab \/ OpenByKey

(***************************************************************************)
(* The target of the load test                                             *)
(***************************************************************************)
\* load_target_from_active_tab, whatever request is in it
UseTab ==
    /\ \E d \in Drafts : SetLoadTarget(d)
    /\ UNCHANGED env

\* open_load_test_for: a recorded request becomes the target, and its panel is shown.
OpenLoadTestFor ==
    /\ \E d \in Drafts : SetLoadTarget(d)
    /\ panel' = [panel EXCEPT !.section = "LoadTest", !.collapsed = FALSE]
    /\ PersistWorkspace
    /\ UNCHANGED env

\* The URLs that can be typed: of any host or of none, with variables or without.
TypedUrls == {[draft |-> None, env |-> None, typed |-> h, open |-> open] : h \in Hosts \cup {None}, open \in BOOLEAN}

EditUrl ==
    /\ load.draft # None /\ load.phase # "Running"
    /\ \E url \in TypedUrls \cup {load.base} : load' = [load EXCEPT !.url = url]
    /\ UNCHANGED <<host, lookups, env>>

EditMethod ==
    /\ load.draft # None /\ load.phase # "Running"
    /\ \E m \in Drafts : load' = [load EXCEPT !.method = m]
    /\ UNCHANGED <<host, lookups, env>>

HostOf(url) == IF url.draft = None THEN url.typed ELSE DraftHost[url.draft]

\* refresh_host, when the input of the URL is left.
RefreshHost ==
    /\ load.draft # None /\ load.phase # "Running"
    /\ HostOf(load.url) \notin {None, host.for}
    /\ LookUp(HostOf(load.url))
    /\ UNCHANGED <<load, env>>

LookupEnds ==
    /\ \E h \in lookups :
          /\ lookups' = lookups \ {h}
          /\ \/ host' = [host EXCEPT !.is = "Done", !.name = h]
             \/ host' = [host EXCEPT !.is = "Unknown", !.name = None]
    /\ UNCHANGED <<load, env>>

OverridesByUrl == load.url # load.base

\* overrides: the method or the URL differs from what the target was shown with.
Overrides == load.method # load.draft \/ load.url # load.base

\* run_load_test and start: the request is expanded when the test begins.
Run ==
    /\ load.draft # None /\ load.phase # "Running"
    /\ load' = [load EXCEPT !.phase = "Running", !.sent =
                   IF Overrides THEN [method |-> load.method, url |-> Filled(load.url)]
                   ELSE [method |-> load.draft, url |-> ExpandedUrl(load.draft)]]
    /\ UNCHANGED <<host, lookups, env>>

RunEnds ==
    /\ load.phase = "Running"
    /\ load' = [load EXCEPT !.phase = "Done"]
    /\ UNCHANGED <<host, lookups, env>>

ChangeEnvironment ==
    /\ env' \in Environments \ {env}
    /\ UNCHANGED loadVars

LoadPanel ==
    /\ UNCHANGED <<part, stripVars, look, openTool, sheet, code, pasted, updaterVars, importVars>>
    /\ \/ OpenLoadTestFor
       \/ /\ UseTab \/ EditUrl \/ EditMethod \/ RefreshHost \/ LookupEnds \/ Run \/ RunEnds
             \/ ChangeEnvironment
          /\ UNCHANGED <<panel, written>>

(***************************************************************************)
(* The window                                                              *)
(***************************************************************************)
Updates ==
    /\ UpdaterNext
    /\ UNCHANGED <<part, stripVars, panel, look, written, toolVars, loadVars, importVars>>

Import ==
    /\ ImporterNext
    /\ UNCHANGED <<part, stripVars, panel, look, written, toolVars, loadVars, updaterVars>>

Init ==
    /\ part \in Parts
    /\ tabs = <<1>> /\ active = 1 /\ drafts = [t \in TabIds |-> NewDraft]
    /\ rows = 1 /\ page = 0 /\ perRow = 0
    /\ panel = [collapsed |-> TRUE, section |-> "Saved", width |-> None, narrow |-> None]
    /\ look = <<"System", "Horizontal">>
    /\ written = WorkspaceState
    /\ openTool = None /\ sheet = None /\ code = NoCode /\ pasted = None
    /\ env \in Environments
    /\ load = NoLoad /\ host = NoHost /\ lookups = {}
    /\ UpdaterInit /\ ImporterInit
    /\ part # "updates" => kind = "Installed" /\ prefs.onLaunch

Next ==
    \/ part = "strip" /\ Strip
    \/ part = "panel" /\ Panel
    \/ part = "sheets" /\ Sheets
    \/ part = "load" /\ LoadPanel
    \/ part = "updates" /\ Updates
    \/ part = "import" /\ Import

Spec == Init /\ [][Next]_vars

(***************************************************************************)
(* Properties                                                              *)
(***************************************************************************)

\* The page that is shown exists, and its tabs are tabs of the window.
TypeOK ==
    /\ tabs # <<>> /\ active \in 1..Len(tabs) /\ Cardinality(ToSet(tabs)) = Len(tabs)
    /\ ToSet(tabs) \subseteq TabIds /\ drafts \in [TabIds -> Drafts]
    /\ rows \in {1, MaxTabRows} /\ page \in Nat /\ ShownTabs # <<>>
    /\ openTool \in Tools \cup {None} /\ sheet \in Tools \cup {None} /\ lookups \subseteq Hosts
    /\ UpdaterTypeOK /\ ImporterTypeOK

\* With several rows, whatever opens, closes, moves or chooses tabs leaves the
\* active tab on the page that is shown (reveal_active_tab).
ActiveIsRevealed ==
    [][ /\ rows' > 1
        /\ <<tabs, active, rows>>' # <<tabs, active, rows>>
        => (tabs[active] \in ToSet(ShownTabs))' ]_vars

\* workspace.json is never behind the window: every operation on the tabs, the
\* panel, the theme and the split hands the writer the state it leads to
\* (persist_workspace), so that a restart finds it.
PersistedIsCurrent == written = WorkspaceState

\* While the code sheet is the open tool, its code is the one for the request
\* it was opened with, in the chosen language, under the environment that is
\* active now (refresh_code_sheet, select_environment, CodeSheet::regenerate).
CodeFollowsEnvironment ==
    openTool = "CodeGen" => code.env = env /\ code.text = Generated(code.draft, env, code.target)

\* What is shown of a host belongs to the host that is named: the answer about
\* an earlier one, which may come later, is not shown (lookup_host).
HostIsLookedUp == host.is = "Done" => host.name = host.for

\* What the window derives follows what it was derived from, whichever handler
\* changed that and whenever an answer comes in: workspace.json the tabs and
\* panels, the code sheet the environment, the host panel the host that is named.
PanelsFollow == TypeOK /\ PersistedIsCurrent /\ CodeFollowsEnvironment /\ HostIsLookedUp

\* A load test sends the method and the URL the panel shows: one that was typed with its
\* variables expanded, one nobody touched expanded again, both under the environment of
\* the moment (run_load_test, overrides).
RunSendsTarget ==
    [][ load'.sent # load.sent =>
            /\ load'.sent.method = load.method
            /\ \/ load'.sent.url = Filled(load.url)
               \/ load.url = load.base /\ load'.sent.url = ExpandedUrl(load.draft) ]_vars

\* The tool whose icon is marked is the sheet that the window shows.
ToolIsShown == openTool = sheet
=============================================================================
