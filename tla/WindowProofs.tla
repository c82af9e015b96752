---------------------------- MODULE WindowProofs ----------------------------
(***************************************************************************)
(* Proofs about Window and the two components whose steps it takes, for    *)
(* any number of tabs and rows of the strip, any widths, requests, hosts   *)
(* and environments, releases, languages and recorded rows.                *)
(*                                                                         *)
(* The updater and the importer come first: each has an invariant of its   *)
(* own specification, which Window keeps because it takes their steps and  *)
(* leaves their variables alone otherwise.  Then the parts of the window,  *)
(* each with its conjunct of the invariant: the tab strip, the panel and   *)
(* what is written of both, the sheets, and the target of the load test.   *)
(***************************************************************************)
EXTENDS Window, FiniteSetTheorems, SequenceTheorems, WellFoundedInduction, TLAPS

-----------------------------------------------------------------------------
(* The updater: it asks the source that the settings name, installs what   *)
(* it offered, and runs only what it verified.                             *)

\* What a download carries until it is installed: the release that was
\* offered, newer than what runs, on an installation that may replace itself,
\* and verified before the installation begins.
Carried ==
    /\ task.does \in {"download", "install"} =>
           /\ available.version > running
           /\ kind = "Installed"
    /\ task.does = "install" => available.advertised /\ available.genuine

OfferInv == UpdaterTypeOK /\ InstallsTheOffer /\ Carried

Preferences == [source : Sources \cup {"Auto"}, language : Languages \cup {"System"}, onLaunch : BOOLEAN]

Statuses == [is : {"Idle", "Checking", "UpToDate", "Available", "Downloading",
                   "Installing", "Staged", "Errored"}, version : 0..MaxVersion]

Tasks == [does : {"nothing", "fetch", "fetched", "download", "install"}, found : Releases \cup {Nothing}]

LEMMA ResolvedTyped ==
    ASSUME NEW pref \in Sources \cup {"Auto"}, NEW language
    PROVE  ResolveSource(pref, Locale(language)) \in Sources
  BY DEF ResolveSource, Sources

LEMMA Constants ==
    /\ Idle \in Tasks
    /\ \A s \in {"Idle", "Checking", "UpToDate", "Available", "Downloading", "Installing", "Staged",
                 "Errored"} : Is(s) \in Statuses
    /\ \A r \in Releases : IsWith("Available", r) \in Statuses /\ IsWith("Staged", r) \in Statuses
    /\ Nothing \notin Releases
  BY UpdaterAssumption DEF Idle, Tasks, Nothing, Is, IsWith, Statuses, Releases

LEMMA OfferInit == UpdaterInit => OfferInv
  BY UpdaterAssumption
  DEF UpdaterInit, OfferInv, UpdaterTypeOK, InstallsTheOffer, Carried, Resolved, ResolveSource,
      Locale, Sources, Kinds, Releases, Nothing, Idle, Is

\* One case for each action, and under it one step for each part it disturbs.
LEMMA OfferStep == OfferInv /\ [UpdaterNext]_updaterVars => OfferInv'
<1> SUFFICES ASSUME OfferInv, [UpdaterNext]_updaterVars
             PROVE  OfferInv'
  OBVIOUS
<1> USE UpdaterAssumption DEF OfferInv, UpdaterTypeOK
<1>1. CASE Publish
  <2>1. sources' \in [Sources -> Releases]
    <3>1. PICK s \in Sources, r \in Releases : sources' = [sources EXCEPT ![s] = r]
      BY <1>1, Zenon DEF Publish, Sources
    <3> QED
      BY <3>1
  <2>2. UNCHANGED <<kind, running, prefs, current, status, available, task, timer>>
    BY <1>1 DEF Publish
  <2> QED
    BY <2>1, <2>2 DEF InstallsTheOffer, Carried, IsBusy
<1>2. CASE ChangeSettings
  <2>1. prefs' \in Preferences
    BY <1>2 DEF ChangeSettings, Preferences
  <2>2. current' \in Sources
    BY <1>2, ResolvedTyped DEF ChangeSettings, SyncSource
  <2>3. UNCHANGED <<kind, running, sources, status, available, task, timer>>
    BY <1>2 DEF ChangeSettings
  <2> QED
    BY <2>1, <2>2, <2>3 DEF InstallsTheOffer, Carried, IsBusy, Preferences
<1>3. CASE Check \/ LaunchCheck
  <2>1. UNCHANGED <<kind, running, prefs, current, sources, available>> /\ timer' \in BOOLEAN
    BY <1>3 DEF Check, LaunchCheck
  <2>2. \/ UNCHANGED <<status, task>>
        \/ status' = Is("Checking") /\ task' = [Idle EXCEPT !.does = "fetch"]
    BY <1>3 DEF Check, LaunchCheck, StartCheck
  <2>3. CASE UNCHANGED <<status, task>>
    BY <2>1, <2>3 DEF InstallsTheOffer, Carried, IsBusy
  <2>4. CASE status' = Is("Checking") /\ task' = [Idle EXCEPT !.does = "fetch"]
    <3>1. task' \in Tasks /\ task'.does = "fetch"
      BY <2>4, Constants DEF Tasks
    <3>2. status' \in Statuses /\ status'.is = "Checking"
      BY <2>4, Constants DEF Is
    <3> QED
      BY <2>1, <3>1, <3>2 DEF InstallsTheOffer, Carried, Statuses, Tasks
  <2> QED
    BY <2>2, <2>3, <2>4
<1>4. CASE Fetch
  <2>1. UNCHANGED <<kind, running, prefs, current, sources, status, available, timer>>
    BY <1>4 DEF Fetch
  <2>2. task' = [does |-> "fetched", found |-> sources[current]] /\ sources[current] \in Releases
    BY <1>4 DEF Fetch, Idle
  <2> QED
    BY <2>1, <2>2 DEF InstallsTheOffer, Carried
<1>5. CASE FetchFails
  BY <1>5, Constants DEF FetchFails, InstallsTheOffer, Carried, Is, Idle, Tasks, Statuses
<1>6. CASE Checked
  <2>1. UNCHANGED <<kind, running, prefs, current, sources, timer>> /\ task' = Idle
    BY <1>6 DEF Checked
  <2>2. CASE task.found.version > running /\ task.found.advertised
    <3>1. status' = IsWith("Available", task.found) /\ available' = task.found
      BY <1>6, <2>2 DEF Checked
    <3>2. task.found \in Releases
      BY <2>2 DEF Nothing
    <3> QED
      BY <2>1, <2>2, <3>1, <3>2, Constants DEF InstallsTheOffer, Carried, IsWith, Idle, Tasks, Statuses
  <2>3. CASE ~(task.found.version > running /\ task.found.advertised)
    <3>1. status' \in {Is("Errored"), Is("UpToDate")} /\ available' = available
      BY <1>6, <2>3 DEF Checked
    <3> QED
      BY <2>1, <3>1, Constants DEF InstallsTheOffer, Carried, Is, Idle, Tasks, Statuses
  <2> QED
    BY <2>2, <2>3
<1>7. CASE Download
  <2>1. UNCHANGED <<kind, running, prefs, current, sources, available, timer>>
    BY <1>7 DEF Download
  <2>2. status' = Is("Downloading") /\ task' = [does |-> "download", found |-> available]
    BY <1>7 DEF Download, Idle
  <2>3. kind = "Installed" /\ available.version > running
    BY <1>7 DEF Download, CanInstall, InstallsTheOffer
  <2> QED
    BY <2>1, <2>2, <2>3, Constants DEF InstallsTheOffer, Carried, IsBusy, Is, Statuses
<1>8. CASE Downloaded
  <2>1. /\ UNCHANGED <<kind, running, prefs, current, sources, available, timer>>
        /\ task.does = "download"
    BY <1>8 DEF Downloaded
  <2>2. CASE status' = Is("Errored") /\ task' = Idle
    BY <2>1, <2>2, Constants DEF InstallsTheOffer, Carried, Is, Idle, Tasks, Statuses
  <2>3. CASE Verifies(task.found) /\ status' = Is("Installing") /\ task' = [task EXCEPT !.does = "install"]
    <3>1. task'.does = "install" /\ task'.found = task.found /\ task' \in Tasks
      BY <2>3 DEF Tasks
    <3> QED
      BY <2>1, <2>3, <3>1, Constants
      DEF InstallsTheOffer, Carried, IsBusy, Is, Statuses, Verifies, Tasks
  <2> QED
    BY <1>8, <2>2, <2>3 DEF Downloaded
<1>9. CASE Installed
  <2>1. /\ UNCHANGED <<kind, running, prefs, current, sources, available, timer>>
        /\ task.does = "install" /\ task' = Idle
    BY <1>9 DEF Installed
  <2>2. task.found = available /\ available.version > running
    BY <2>1 DEF InstallsTheOffer, Carried
  <2>3. available \in Releases
    BY <2>2 DEF Nothing
  <2>4. status' \in {IsWith("Staged", available), Is("Errored")}
    BY <1>9, <2>2 DEF Installed
  <2> QED
    BY <2>1, <2>2, <2>3, <2>4, Constants DEF InstallsTheOffer, Carried, IsWith, Is, Idle, Tasks, Statuses
<1>10. CASE Restart
  <2>1. running' = status.version /\ status.version > running
    BY <1>10 DEF Restart, InstallsTheOffer
  <2>2. current' \in Sources
    BY <1>10, ResolvedTyped DEF Restart, Resolved
  <2>3. /\ status' = Is("Idle") /\ available' = Nothing /\ task' = Idle /\ timer' \in BOOLEAN
        /\ UNCHANGED <<kind, prefs, sources>>
    BY <1>10 DEF Restart
  <2> QED
    BY <2>1, <2>2, <2>3, Constants DEF InstallsTheOffer, Carried, Is, Idle, Tasks, Statuses
<1>11. CASE UNCHANGED updaterVars
  BY <1>11 DEF updaterVars, InstallsTheOffer, Carried, IsBusy
<1> QED
  BY <1>1, <1>2, <1>3, <1>4, <1>5, <1>6, <1>7, <1>8, <1>9, <1>10, <1>11 DEF UpdaterNext

LEMMA OfferHolds == UpdaterSpec => []OfferInv
  BY OfferInit, OfferStep, PTL DEF UpdaterSpec

\* The type invariant (UpdateStatus, InstallKind and the engine's fields): a
\* restart finds a version, because only a newer release is ever staged.
THEOREM UpdaterTyped == UpdaterSpec => []UpdaterTypeOK
<1>1. OfferInv => UpdaterTypeOK
  BY DEF OfferInv
<1> QED
  BY <1>1, OfferHolds, PTL

\* What is offered is newer than what runs and is what gets installed.
THEOREM OfferInstalled == UpdaterSpec => []InstallsTheOffer
<1>1. OfferInv => InstallsTheOffer
  BY DEF OfferInv
<1> QED
  BY <1>1, OfferHolds, PTL

\* The source that is shared with the background thread is recomputed by every
\* change it depends on (sync_source in settings::update).
THEOREM SourceFollows == UpdaterSpec => []SourceFollowsSettings
<1>1. UpdaterInit => SourceFollowsSettings
  BY DEF UpdaterInit, SourceFollowsSettings
<1>2. SourceFollowsSettings /\ [UpdaterNext]_updaterVars => SourceFollowsSettings'
  BY DEF SourceFollowsSettings, UpdaterNext, updaterVars, Publish, ChangeSettings, SyncSource, Check,
         LaunchCheck, Fetch, FetchFails, Checked, Download, Downloaded, Installed, Restart, Resolved,
         ResolveSource, Locale
<1> QED
  BY <1>1, <1>2, PTL DEF UpdaterSpec

\* Only a proper installation replaces itself, by a verified artifact: an
\* installation ends on a task that Downloaded let through.
THEOREM VerifiedRuns == UpdaterSpec => OnlyVerifiedRuns
<1>1. OfferInv /\ [UpdaterNext]_updaterVars =>
          [ status'.is = "Staged" /\ status.is # "Staged" =>
                kind = "Installed" /\ available.genuine /\ available.advertised ]_updaterVars
  <2> SUFFICES ASSUME OfferInv, UpdaterNext, status'.is = "Staged", status.is # "Staged"
               PROVE  kind = "Installed" /\ available.genuine /\ available.advertised
    OBVIOUS
  <2>1. Installed
    BY DEF UpdaterNext, Publish, ChangeSettings, Check, LaunchCheck, StartCheck, Fetch, FetchFails,
           Checked, Download, Downloaded, Restart, Is, IsWith
  <2> QED
    BY <2>1 DEF Installed, OfferInv, Carried
<1> QED
  BY <1>1, OfferHolds, PTL DEF UpdaterSpec, OnlyVerifiedRuns

-----------------------------------------------------------------------------
(* The import of recorded requests: no recorded row becomes two saved      *)
(* requests, and none is marked that was not read.                         *)

\* What lies between a mark and its file: the rows still to be marked are not
\* marked, those still to be written are marked and have no file, and nothing
\* that is not marked has one.
Between ==
    /\ \A i \in command.rows : i \in seen /\ i \notin marked
    /\ \A i \in command.out : i \in marked /\ Written(i) = 0
    /\ \A i \in Ids : i \notin marked => Written(i) = 0
    /\ command.does = "write" => command.rows = {}

ImportInv == ImporterTypeOK /\ ImportedOnce /\ Between

Saved == {ToSaved(r) : r \in Recordable}

LEMMA ImportInit == ImporterInit => ImportInv
  BY ImporterAssumption
  DEF ImporterInit, ImportInv, ImporterTypeOK, ImportedOnce, Between, NoCommand, Ids, Written

\* The unit of work of each action; marking and writing touch one row.
LEMMA ImportStep == ImportInv /\ [ImporterNext]_importVars => ImportInv'
<1> SUFFICES ASSUME ImportInv, [ImporterNext]_importVars
             PROVE  ImportInv'
  OBVIOUS
<1> USE ImporterAssumption DEF ImportInv, ImporterTypeOK, Ids
<1>1. CASE RecordRow
  <2>1. PICK row \in Recordable : table' = Append(table, row)
    BY <1>1 DEF RecordRow
  <2>2. /\ table' \in Seq(Recordable) /\ Len(table') <= MaxRows
        /\ DOMAIN table \subseteq DOMAIN table'
        /\ \A i \in DOMAIN table : table'[i] = table[i]
    BY <1>1, <2>1 DEF RecordRow
  <2>3. UNCHANGED <<marked, files, command, seen, faults>>
    BY <1>1 DEF RecordRow
  <2> QED
    BY <2>2, <2>3 DEF ImportedOnce, Between, Written
<1>2. CASE ImportStarts
  <2>1. PICK found \in SUBSET (DOMAIN table \ marked) :
            command' = [does |-> "mark", rows |-> found, out |-> {}] /\ seen' = seen \cup found
    BY <1>2 DEF ImportStarts, Selected
  <2>2. UNCHANGED <<table, marked, files, faults>> /\ command.out = {}
    BY <1>2 DEF ImportStarts, NoCommand
  <2> QED
    BY <2>1, <2>2 DEF ImportedOnce, Between, Written
<1>3. CASE MarkRow
  <2>1. PICK i \in command.rows :
            /\ marked' = marked \cup {i}
            /\ command' = [command EXCEPT !.rows = @ \ {i},
                                         !.out = IF Supported(table[i]) THEN @ \cup {i} ELSE @]
    BY <1>3 DEF MarkRow, Mark
  <2>2. UNCHANGED <<table, files, seen, faults>> /\ command.does = "mark"
    BY <1>3 DEF MarkRow
  <2>3. /\ command'.does = "mark" /\ command'.rows = command.rows \ {i}
        /\ command'.out = IF Supported(table[i]) THEN command.out \cup {i} ELSE command.out
    BY <2>1, <2>2
  <2>4. ImporterTypeOK'
    BY <2>1, <2>2 DEF Between
  <2>5. i \in Ids /\ Written(i) = 0
    BY DEF Between
  <2>6. Between'
    BY <2>1, <2>2, <2>3, <2>5 DEF Between, Written
  <2>7. ImportedOnce'
    BY <2>1, <2>2, <2>3, <2>5 DEF ImportedOnce, Between, Written
  <2> QED
    BY <2>4, <2>6, <2>7
<1>4. CASE AllMarked
  <2>1. command' \in [does : {"nothing", "mark", "write"}, rows : SUBSET DOMAIN table, out : SUBSET DOMAIN table]
        /\ command'.does = "write" /\ command'.rows = {} /\ command'.out = command.out
    BY <1>4 DEF AllMarked
  <2> QED
    BY <1>4, <2>1 DEF AllMarked, ImportedOnce, Between, Written
<1>5. CASE WriteRequest
  <2>1. PICK i \in command.out :
            /\ files' = [files EXCEPT ![i] = Append(@, ToSaved(table[i]))]
            /\ command' = [command EXCEPT !.out = @ \ {i}]
    BY <1>5 DEF WriteRequest
  <2>2. UNCHANGED <<table, marked, seen, faults>> /\ command.does = "write"
    BY <1>5 DEF WriteRequest
  <2>3. i \in Ids /\ i \in marked /\ Written(i) = 0 /\ files[i] \in Seq(Saved)
    BY DEF Between, Saved
  <2>4. ToSaved(table[i]) \in Saved
    BY DEF Saved
  <2>5. files' \in [Ids -> Seq(Saved)]
    BY <2>1, <2>3, <2>4 DEF Saved
  <2>6. Written(i)' = 1 /\ \A j \in Ids \ {i} : Written(j)' = Written(j)
    BY <2>1, <2>3, <2>4 DEF Written
  <2>7. command'.does = "write" /\ command'.rows = {} /\ command'.out = command.out \ {i}
    BY <2>1, <2>2 DEF Between
  <2>8. ImporterTypeOK'
    BY <2>1, <2>2, <2>5 DEF Saved
  <2>9. Between'
    BY <2>2, <2>3, <2>6, <2>7 DEF Between
  <2>10. ImportedOnce'
    BY <2>2, <2>3, <2>6, <2>7 DEF ImportedOnce
  <2> QED
    BY <2>8, <2>9, <2>10
<1>6. CASE ImportEnds
  BY <1>6 DEF ImportEnds, NoCommand, ImportedOnce, Between, Written
<1>7. CASE ImportIsCutShort
  BY <1>7 DEF ImportIsCutShort, NoCommand, ImportedOnce, Between, Written
<1>8. CASE UNCHANGED importVars
  BY <1>8 DEF importVars, ImportedOnce, Between, Written
<1> QED
  BY <1>1, <1>2, <1>3, <1>4, <1>5, <1>6, <1>7, <1>8 DEF ImporterNext

\* Imports, failures, kills and recordings in any order: a row becomes at most
\* one saved request, and is only marked when an import has read it (take_new).
THEOREM RowsImportedOnce == ImporterSpec => []ImportedOnce
<1>1. ImportInv => ImportedOnce
  BY DEF ImportInv
<1> QED
  BY <1>1, ImportInit, ImportStep, PTL DEF ImporterSpec

-----------------------------------------------------------------------------
(* Numbers, sequences and tabs *)

\* Division: pages count whole ones.
LEMMA DivIs ==
  ASSUME NEW a \in Nat, NEW b \in Nat \ {0}
  PROVE  a \div b \in Nat /\ (a \div b) * b <= a /\ a < (a \div b) * b + b
OBVIOUS

LEMMA TimesGrows ==
  ASSUME NEW a \in Nat, NEW b \in Nat, NEW c \in Nat, a <= b
  PROVE  a * c <= b * c
OBVIOUS

\* A set of numbers that is not empty has a least one.
LEMMA Least1 ==
  ASSUME NEW S \in SUBSET Nat, S # {}
  PROVE  \E x \in S : \A y \in S : x <= y
<1> DEFINE Below == {p \in Nat \X Nat : p[1] < p[2]}
<1>1. IsWellFoundedOn(Below, Nat)
  BY NatLessThanWellFounded, Zenon DEF OpToRel
<1>2. \E x \in S : \A y \in S : ~(<<y, x>> \in Below)
  <2> HIDE DEF Below
  <2> QED BY <1>1, WFMin
<1>3. PICK x \in S : \A y \in S : ~(<<y, x>> \in Below)
  BY <1>2
<1>4. ASSUME NEW y \in S PROVE x <= y
  <2>1. y < x => <<y, x>> \in Below
    OBVIOUS
  <2> QED BY <2>1, <1>3
<1> QED BY <1>4

\* An element is inserted, or removed.
LEMMA InsertIs ==
  ASSUME NEW S, NEW s \in Seq(S), NEW e \in S, NEW at \in 1..(Len(s) + 1), NEW u, u = InsertAt(s, at, e)
  PROVE  /\ u \in Seq(S) /\ Len(u) = Len(s) + 1 /\ u[at] = e
         /\ \A j \in 1..Len(u) : j < at => u[j] = s[j]
         /\ \A j \in 1..Len(u) : j > at => u[j] = s[j - 1]
<1> DEFINE a == SubSeq(s, 1, at - 1)
           c == SubSeq(s, at, Len(s))
           one == <<e>>
<1>1. /\ a \in Seq(S) /\ Len(a) = at - 1 /\ \A j \in 1..(at - 1) : a[j] = s[j]
      /\ c \in Seq(S) /\ Len(c) = Len(s) - at + 1 /\ \A j \in 1..Len(c) : c[j] = s[at + j - 1]
      /\ one \in Seq(S) /\ Len(one) = 1 /\ one[1] = e
  OBVIOUS
<1>2. u = (a \o one) \o c
  BY DEF InsertAt
<1> HIDE DEF a, c, one
<1> DEFINE b == a \o one
<1>3. b \in Seq(S) /\ Len(b) = at /\ b[at] = e /\ \A j \in 1..(at - 1) : b[j] = s[j]
  <2>1. Len(s) \in Nat /\ at - 1 \in Nat
    OBVIOUS
  <2>2. /\ b \in Seq(S) /\ Len(b) = Len(a) + Len(one)
        /\ \A j \in 1..(Len(a) + Len(one)) : b[j] = IF j <= Len(a) THEN a[j] ELSE one[j - Len(a)]
    BY <1>1, ConcatProperties, Zenon
  <2> HIDE DEF b
  <2>3. Len(a) + Len(one) = at
    BY <2>1, <1>1
  <2>4. b[at] = one[at - Len(a)] /\ at - Len(a) = 1
    BY <2>1, <2>2, <2>3, <1>1
  <2>5. ASSUME NEW j \in 1..(at - 1) PROVE b[j] = s[j]
    <3>1. b[j] = a[j]
      BY <2>1, <2>2, <2>3, <1>1
    <3> QED BY <3>1, <1>1
  <2> QED BY <2>2, <2>3, <2>4, <2>5, <1>1
<1>4. u = b \o c
  BY <1>2
<1> HIDE DEF b
<1>5. Len(s) \in Nat /\ Len(c) \in Nat /\ Len(b) + Len(c) = Len(s) + 1
  BY <1>1, <1>3
<1>6. /\ u \in Seq(S) /\ Len(u) = Len(b) + Len(c)
      /\ \A j \in 1..(Len(b) + Len(c)) : u[j] = IF j <= Len(b) THEN b[j] ELSE c[j - Len(b)]
  <2>1. /\ b \o c \in Seq(S) /\ Len(b \o c) = Len(b) + Len(c)
        /\ \A j \in 1..(Len(b) + Len(c)) : (b \o c)[j] = IF j <= Len(b) THEN b[j] ELSE c[j - Len(b)]
    BY <1>1, <1>3, ConcatProperties, Zenon
  <2> QED BY <2>1, <1>4, Zenon
<1>7. ASSUME NEW j \in 1..Len(u), j <= at PROVE u[j] = b[j]
  BY <1>3, <1>5, <1>6, <1>7
<1>8. ASSUME NEW j \in 1..Len(u), j > at PROVE u[j] = s[j - 1]
  <2>1. u[j] = c[j - at]
    BY <1>3, <1>5, <1>6, <1>8
  <2>2. j - at \in 1..Len(c) /\ at + (j - at) - 1 = j - 1
    BY <1>3, <1>5, <1>6, <1>8
  <2>3. c[j - at] = s[at + (j - at) - 1]
    BY <2>2, <1>1
  <2> QED BY <2>1, <2>2, <2>3
<1>9. ASSUME NEW j \in 1..Len(u), j < at PROVE u[j] = s[j]
  <2>1. u[j] = b[j] /\ j \in 1..(at - 1)
    BY <1>6, <1>7, <1>9
  <2> QED BY <2>1, <1>3
<1>10. at \in 1..Len(u)
  BY <1>5, <1>6
<1> QED BY <1>3, <1>5, <1>6, <1>7, <1>8, <1>9, <1>10

LEMMA RemoveIs ==
  ASSUME NEW S, NEW s \in Seq(S), NEW at \in 1..Len(s), NEW u, u = RemoveAt(s, at)
  PROVE  /\ u \in Seq(S) /\ Len(u) = Len(s) - 1
         /\ \A j \in 1..Len(u) : j < at => u[j] = s[j]
         /\ \A j \in 1..Len(u) : j >= at => u[j] = s[j + 1]
<1> DEFINE a == SubSeq(s, 1, at - 1)
           c == SubSeq(s, at + 1, Len(s))
<1>1. /\ a \in Seq(S) /\ Len(a) = at - 1 /\ \A j \in 1..(at - 1) : a[j] = s[j]
      /\ c \in Seq(S) /\ Len(c) = Len(s) - at /\ \A j \in 1..Len(c) : c[j] = s[at + j]
      /\ Len(s) \in Nat
  OBVIOUS
<1>2. u = a \o c
  BY DEF RemoveAt
<1> HIDE DEF a, c
<1>3. /\ u \in Seq(S) /\ Len(u) = Len(a) + Len(c)
      /\ \A j \in 1..(Len(a) + Len(c)) : u[j] = IF j <= Len(a) THEN a[j] ELSE c[j - Len(a)]
  <2>1. /\ a \o c \in Seq(S) /\ Len(a \o c) = Len(a) + Len(c)
        /\ \A j \in 1..(Len(a) + Len(c)) : (a \o c)[j] = IF j <= Len(a) THEN a[j] ELSE c[j - Len(a)]
    BY <1>1, ConcatProperties, Zenon
  <2> QED BY <2>1, <1>2, Zenon
<1>4. ASSUME NEW j \in 1..Len(u), j < at PROVE u[j] = s[j]
  BY <1>1, <1>3, <1>4
<1>5. ASSUME NEW j \in 1..Len(u), j >= at PROVE u[j] = s[j + 1]
  <2>1. u[j] = c[j - at + 1] /\ j - at + 1 \in 1..Len(c) /\ at + (j - at + 1) = j + 1
    BY <1>1, <1>3, <1>5
  <2> QED BY <2>1, <1>1
<1> QED BY <1>1, <1>3, <1>4, <1>5

\* No tab is listed twice.
Distinct(ts) == \A i, j \in 1..Len(ts) : ts[i] = ts[j] => i = j

LEMMA InsertedDistinct ==
  ASSUME NEW S, NEW s \in Seq(S), Distinct(s), NEW e \in S, e \notin ToSet(s), NEW at \in 1..(Len(s) + 1),
         NEW u, u = InsertAt(s, at, e)
  PROVE  Distinct(u)
<1>1. /\ u \in Seq(S) /\ Len(u) = Len(s) + 1 /\ u[at] = e /\ Len(s) \in Nat
      /\ \A j \in 1..Len(u) : j < at => u[j] = s[j]
      /\ \A j \in 1..Len(u) : j > at => u[j] = s[j - 1]
  BY InsertIs
<1>2. \A j \in 1..Len(s) : s[j] # e
  BY DEF ToSet
<1> DEFINE old(j) == IF j < at THEN j ELSE j - 1
<1>3. ASSUME NEW j \in 1..Len(u), j # at PROVE old(j) \in 1..Len(s) /\ u[j] = s[old(j)]
  BY <1>1, <1>3
<1>4. ASSUME NEW i \in 1..Len(u), NEW j \in 1..Len(u), u[i] = u[j] PROVE i = j
  <2>1. CASE i = at \/ j = at
    BY <2>1, <1>1, <1>2, <1>3, <1>4
  <2>2. CASE i # at /\ j # at
    <3>1. old(i) = old(j)
      BY <2>2, <1>3, <1>4 DEF Distinct
    <3> QED BY <3>1, <2>2, <1>1
  <2> QED BY <2>1, <2>2
<1> QED BY <1>4 DEF Distinct

LEMMA RemovedDistinct ==
  ASSUME NEW S, NEW s \in Seq(S), Distinct(s), NEW at \in 1..Len(s), NEW u, u = RemoveAt(s, at)
  PROVE  Distinct(u)
<1>1. /\ u \in Seq(S) /\ Len(u) = Len(s) - 1 /\ Len(s) \in Nat
      /\ \A j \in 1..Len(u) : j < at => u[j] = s[j]
      /\ \A j \in 1..Len(u) : j >= at => u[j] = s[j + 1]
  BY RemoveIs
<1> DEFINE old(j) == IF j < at THEN j ELSE j + 1
<1>2. ASSUME NEW j \in 1..Len(u) PROVE old(j) \in 1..Len(s) /\ u[j] = s[old(j)]
  BY <1>1
<1>3. ASSUME NEW i \in 1..Len(u), NEW j \in 1..Len(u), u[i] = u[j] PROVE i = j
  <2>1. old(i) = old(j)
    BY <1>2, <1>3 DEF Distinct
  <2> QED BY <2>1, <1>1
<1> QED BY <1>3 DEF Distinct

\* As many tabs as places.
LEMMA DistinctCount ==
  ASSUME NEW S, NEW s \in Seq(S), Distinct(s)
  PROVE  IsFiniteSet(ToSet(s)) /\ Cardinality(ToSet(s)) = Len(s)
<1>1. Len(s) \in Nat /\ DOMAIN s = 1..Len(s)
  OBVIOUS
<1>2. IsFiniteSet(1..Len(s)) /\ Cardinality(1..Len(s)) = Len(s)
  BY <1>1, FS_Interval
<1>3. s \in Bijection(1..Len(s), ToSet(s))
  <2>1. s \in [1..Len(s) -> ToSet(s)]
    BY <1>1 DEF ToSet
  <2>2. \A i, j \in 1..Len(s) : s[i] = s[j] => i = j
    BY DEF Distinct
  <2>3. \A x \in ToSet(s) : \E i \in 1..Len(s) : s[i] = x
    BY <1>1 DEF ToSet
  <2>4. s \in Injection(1..Len(s), ToSet(s))
    BY <2>1, <2>2 DEF Injection, IsInjective
  <2>5. s \in Surjection(1..Len(s), ToSet(s))
    BY <2>1, <2>3 DEF Surjection
  <2> QED BY <2>4, <2>5 DEF Bijection
<1> QED BY <1>1, <1>2, <1>3, FS_Bijection DEF ExistsBijection

-----------------------------------------------------------------------------
(* The tab strip *)

StripInv ==
  /\ tabs \in Seq(TabIds) /\ Len(tabs) \in 1..MaxTabs[part] /\ Distinct(tabs)
  /\ active \in 1..Len(tabs)
  /\ rows \in {1, MaxTabRows} /\ page \in Nat /\ perRow \in Nat
  /\ drafts \in [TabIds -> Drafts]

\* There is an identity for a tab that is opened.
LEMMA FreshIs ==
  ASSUME part \in Parts, NEW used \in SUBSET TabIds, IsFiniteSet(used), Cardinality(used) <= MaxTabs[part]
  PROVE  FreshTab(used) \in TabIds \ used
<1>1. MaxTabs[part] \in Nat
  BY WindowAssumption
<1>2. IsFiniteSet(TabIds) /\ Cardinality(TabIds) = MaxTabs[part] + 1
  BY <1>1, FS_Interval DEF TabIds
<1>3. TabIds # used
  <2>1. Cardinality(used) \in Nat
    BY FS_CardinalityType
  <2> QED BY <2>1, <1>1, <1>2
<1>4. TabIds \ used \in SUBSET Nat /\ TabIds \ used # {}
  <2>1. TabIds \subseteq Nat
    BY <1>1 DEF TabIds
  <2>2. \E t \in TabIds : t \notin used
    BY <1>3
  <2> QED BY <2>1, <2>2
<1>5. PICK t \in TabIds \ used : \A y \in TabIds \ used : t <= y
  BY <1>4, Least1
<1>6. 1..(t - 1) \subseteq used
  BY <1>1, <1>5 DEF TabIds
<1> QED BY <1>5, <1>6 DEF FreshTab

\* The size of a page.
LEMMA SizeIs ==
  ASSUME NEW width \in Nat, NEW n \in {1, MaxTabRows}
  PROVE  TabsPerPage(width, n) \in Nat \ {0} /\ n \in Nat \ {0}
BY WindowAssumption DEF TabsPerPage, AtLeastOne

\* The number of pages: the last one is not empty.
LEMMA PagesAre ==
  ASSUME NEW total \in Nat \ {0}, NEW size \in Nat \ {0}, NEW ix \in 1..total
  PROVE  /\ PageCount(total, size) \in Nat \ {0}
         /\ (PageCount(total, size) - 1) * size < total
         /\ (ix - 1) \div size \in Nat /\ (ix - 1) \div size <= PageCount(total, size) - 1
         /\ ((ix - 1) \div size) * size < ix /\ ix <= ((ix - 1) \div size + 1) * size
<1> DEFINE q == (total + size - 1) \div size
           p == (ix - 1) \div size
<1>1. q \in Nat /\ q * size <= total + size - 1 /\ total + size - 1 < q * size + size
  BY DivIs
<1>2. p \in Nat /\ p * size <= ix - 1 /\ ix - 1 < p * size + size
  BY DivIs
<1> HIDE DEF q, p
<1>3. q # 0
  BY <1>1
<1>4. PageCount(total, size) = q
  BY <1>3 DEF PageCount, AtLeastOne, q
<1>5. (q - 1) * size = q * size - size /\ (p + 1) * size = p * size + size /\ (q + 1) * size = q * size + size
  BY <1>1, <1>2
<1>6. p <= q - 1
  <2>1. SUFFICES ASSUME q <= p PROVE FALSE
    BY <1>1, <1>2
  <2>2. q * size <= p * size
    BY <2>1, <1>1, <1>2, TimesGrows
  <2> QED BY <2>2, <1>1, <1>2
<1> QED BY <1>1, <1>2, <1>3, <1>4, <1>5, <1>6 DEF p

\* The tabs of page pg of ts, the last page standing for those beyond.
TabsOf(ts, pg, width, n) ==
  LET size == TabsPerPage(width, n)
      shown == Least(pg, PageCount(Len(ts), size) - 1)
  IN  SubSeq(ts, shown * size + 1, Least((shown + 1) * size, Len(ts)))

LEMMA PageIsShown ==
  /\ ShownTabs = TabsOf(tabs, page, perRow, rows)
  /\ ShownTabs' = TabsOf(tabs', page', perRow', rows')
BY DEF ShownTabs, ShownPage, TabsOf

\* The page that is shown exists and has tabs; when it is the one of the active tab,
\* the active tab is among them.
LEMMA ShownIs ==
  ASSUME NEW S, NEW ts \in Seq(S), NEW ix \in 1..Len(ts), NEW pg \in Nat, NEW width \in Nat,
         NEW n \in {1, MaxTabRows}
  PROVE  /\ TabsOf(ts, pg, width, n) # <<>>
         /\ pg = (ix - 1) \div TabsPerPage(width, n) => ts[ix] \in ToSet(TabsOf(ts, pg, width, n))
<1> DEFINE size == TabsPerPage(width, n)
           total == Len(ts)
           last == PageCount(total, size) - 1
           shown == Least(pg, last)
           from == shown * size + 1
           upto == Least((shown + 1) * size, total)
<1>1. size \in Nat \ {0} /\ total \in Nat \ {0} /\ ix \in 1..total
  <2>1. Len(ts) \in Nat
    OBVIOUS
  <2>2. size \in Nat \ {0}
    BY SizeIs
  <2> QED BY <2>1, <2>2
<1> HIDE DEF size, total
<1>2. /\ last \in Nat /\ last * size < total
      /\ (ix - 1) \div size \in Nat /\ (ix - 1) \div size <= last
      /\ ((ix - 1) \div size) * size < ix /\ ix <= ((ix - 1) \div size + 1) * size
  <2>1. /\ PageCount(total, size) \in Nat \ {0}
        /\ (PageCount(total, size) - 1) * size < total
        /\ (ix - 1) \div size \in Nat /\ (ix - 1) \div size <= PageCount(total, size) - 1
        /\ ((ix - 1) \div size) * size < ix /\ ix <= ((ix - 1) \div size + 1) * size
    BY <1>1, PagesAre
  <2>2. PageCount(total, size) - 1 \in Nat
    BY <2>1
  <2> QED BY <2>1, <2>2
<1> HIDE DEF last
<1>4. shown \in Nat /\ shown <= last /\ (pg <= last => shown = pg)
  BY <1>2 DEF Least
<1> HIDE DEF shown
<1>5. shown * size < total
  BY <1>1, <1>2, <1>4, TimesGrows
<1>6. shown * size \in Nat /\ (shown + 1) * size = shown * size + size
  BY <1>1, <1>4
<1>7. from \in 1..total /\ upto \in from..total
  BY <1>1, <1>5, <1>6 DEF Least
<1>8. TabsOf(ts, pg, width, n) = SubSeq(ts, from, upto)
  BY DEF TabsOf, size, total, shown, last
<1>9. ASSUME pg = (ix - 1) \div size PROVE ix \in from..upto
  <2>1. shown = (ix - 1) \div size
    BY <1>9, <1>2, <1>4
  <2>2. shown * size < ix /\ ix <= (shown + 1) * size
    BY <2>1, <1>2
  <2> QED BY <2>2, <1>1, <1>6 DEF Least
<1> HIDE DEF from, upto
<1> DEFINE pageTabs == TabsOf(ts, pg, width, n)
<1>11. /\ Len(pageTabs) = upto - from + 1 /\ DOMAIN pageTabs = 1..(upto - from + 1)
       /\ \A i \in 1..(upto - from + 1) : pageTabs[i] = ts[from + i - 1]
  BY <1>7, <1>8 DEF total
<1> HIDE DEF pageTabs
<1>12. pageTabs # <<>>
  BY <1>7, <1>11
<1>13. ASSUME pg = (ix - 1) \div size PROVE ts[ix] \in ToSet(pageTabs)
  <2>1. ix - from + 1 \in 1..(upto - from + 1) /\ from + (ix - from + 1) - 1 = ix
    BY <1>7, <1>9, <1>13
  <2>2. pageTabs[ix - from + 1] = ts[ix]
    BY <2>1, <1>11
  <2> QED BY <2>1, <2>2, <1>11 DEF ToSet
<1> QED BY <1>12, <1>13 DEF size, pageTabs

-----------------------------------------------------------------------------
(* Steps of the tab strip *)

\* The active tab is on the page that is shown.
Faces == rows > 1 => page = (active - 1) \div TabsPerPage(perRow, rows)

LEMMA FacedIsRevealed ==
  ASSUME StripInv', Faces'
  PROVE  rows' > 1 => (tabs[active] \in ToSet(ShownTabs))'
<1>1. /\ tabs' \in Seq(TabIds') /\ active' \in 1..Len(tabs') /\ page' \in Nat /\ perRow' \in Nat
      /\ rows' \in {1, MaxTabRows}
  BY DEF StripInv
<1> DEFINE shown == TabsOf(tabs', page', perRow', rows')
<1>2. page' = (active' - 1) \div TabsPerPage(perRow', rows') => tabs'[active'] \in ToSet(shown)
  BY <1>1, ShownIs
<1>3. ShownTabs' = shown
  BY PageIsShown
<1>4. ToSet(ShownTabs') = ToSet(shown)
  BY <1>3
<1>5. rows' > 1 => page' = (active' - 1) \div TabsPerPage(perRow', rows')
  BY DEF Faces
<1> QED BY <1>2, <1>4, <1>5

LEMMA RevealedIs ==
  ASSUME NEW ix \in Nat \ {0}, NEW n \in {1, MaxTabRows}, NEW old \in Nat, perRow \in Nat
  PROVE  /\ Revealed(ix, n, old) \in Nat
         /\ n > 1 => Revealed(ix, n, old) = (ix - 1) \div TabsPerPage(perRow, n)
<1>1. TabsPerPage(perRow, n) \in Nat \ {0} /\ ix - 1 \in Nat
  BY SizeIs
<1>2. (ix - 1) \div TabsPerPage(perRow, n) \in Nat
  BY <1>1, DivIs
<1> QED BY <1>2 DEF Revealed

\* Whatever lays out the tabs anew shows the active one and writes both.
LEMMA ArrangeKeeps ==
  ASSUME part \in Parts, part' = part, StripInv, NEW ts \in Seq(TabIds), Len(ts) \in 1..MaxTabs[part], Distinct(ts),
         NEW ix \in 1..Len(ts), Arrange(ts, ix), drafts' \in [TabIds -> Drafts]
  PROVE  StripInv' /\ Faces' /\ PersistedIsCurrent'
<1>1. /\ tabs' = ts /\ active' = ix /\ page' = Revealed(ix, rows, page) /\ rows' = rows /\ perRow' = perRow
      /\ written' = WorkspaceState'
  BY DEF Arrange, PersistWorkspace
<1>2. page' \in Nat /\ (rows > 1 => page' = (ix - 1) \div TabsPerPage(perRow, rows))
  <2>1. perRow \in Nat /\ rows \in {1, MaxTabRows} /\ page \in Nat
    BY DEF StripInv
  <2>2. ix \in Nat \ {0}
    OBVIOUS
  <2> QED BY <1>1, <2>1, <2>2, RevealedIs
<1>3. TabIds' = TabIds
  BY DEF TabIds
<1>4. StripInv'
  <2>1. tabs' \in Seq(TabIds') /\ drafts' \in [TabIds' -> Drafts]
    BY <1>1, <1>3
  <2>2. Len(tabs') \in 1..MaxTabs[part'] /\ Distinct(tabs')
    BY <1>1
  <2> QED BY <1>1, <1>2, <2>1, <2>2 DEF StripInv
<1>5. Faces'
  BY <1>1, <1>2 DEF Faces
<1> QED BY <1>1, <1>4, <1>5 DEF PersistedIsCurrent

\* The identity of a tab that is opened is not in the strip.
LEMMA NewIdentity ==
  ASSUME part \in Parts, StripInv
  PROVE  FreshTab(ToSet(tabs)) \in TabIds /\ FreshTab(ToSet(tabs)) \notin ToSet(tabs)
<1>1. tabs \in Seq(TabIds) /\ Distinct(tabs) /\ Len(tabs) <= MaxTabs[part]
  BY DEF StripInv
<1>2. IsFiniteSet(ToSet(tabs)) /\ Cardinality(ToSet(tabs)) <= MaxTabs[part]
  BY <1>1, DistinctCount
<1>3. ToSet(tabs) \in SUBSET TabIds
  BY <1>1 DEF ToSet
<1> QED BY <1>2, <1>3, FreshIs

LEMMA OpenKeeps ==
  ASSUME part \in Parts, part' = part, StripInv, NEW at \in 1..(Len(tabs) + 1), NEW d \in Drafts, OpenTab(at, d)
  PROVE  StripInv' /\ Faces' /\ PersistedIsCurrent'
<1> DEFINE t == FreshTab(ToSet(tabs))
           ts == InsertAt(tabs, at, t)
<1>1. t \in TabIds /\ t \notin ToSet(tabs)
  BY NewIdentity
<1>2. Arrange(ts, at) /\ drafts' = [drafts EXCEPT ![t] = d] /\ Len(tabs) < MaxTabs[part]
  BY DEF OpenTab, CanOpen
<1> HIDE DEF t
<1>3. tabs \in Seq(TabIds) /\ Distinct(tabs) /\ Len(tabs) \in Nat /\ drafts \in [TabIds -> Drafts]
  BY DEF StripInv
<1>4. ts \in Seq(TabIds) /\ Len(ts) = Len(tabs) + 1
  BY <1>1, <1>3, InsertIs
<1>5. Distinct(ts)
  BY <1>1, <1>3, InsertedDistinct
<1> HIDE DEF ts
<1>6. MaxTabs[part] \in Nat
  BY WindowAssumption
<1>7. Len(ts) \in 1..MaxTabs[part] /\ at \in 1..Len(ts)
  BY <1>2, <1>3, <1>4, <1>6
<1>8. drafts' \in [TabIds -> Drafts]
  BY <1>1, <1>2, <1>3
<1> QED BY <1>2, <1>4, <1>5, <1>7, <1>8, ArrangeKeeps

LEMMA OneTab ==
  ASSUME part \in Parts, part' = part, StripInv, NEW t \in TabIds, Arrange(<<t>>, 1), UNCHANGED drafts
  PROVE  StripInv' /\ Faces' /\ PersistedIsCurrent'
<1>1. <<t>> \in Seq(TabIds) /\ Len(<<t>>) = 1 /\ Distinct(<<t>>)
  BY DEF Distinct
<1>2. MaxTabs[part] \in Nat \ {0}
  BY WindowAssumption
<1>3. Len(<<t>>) \in 1..MaxTabs[part] /\ 1 \in 1..Len(<<t>>)
  BY <1>1, <1>2
<1>4. drafts' \in [TabIds -> Drafts]
  BY DEF StripInv
<1> QED BY <1>1, <1>3, <1>4, ArrangeKeeps

LEMMA CloseKeeps ==
  ASSUME part \in Parts, part' = part, StripInv, CloseTab
  PROVE  StripInv' /\ Faces' /\ PersistedIsCurrent'
<1>1. PICK ix \in 1..Len(tabs) :
          /\ IF Len(tabs) = 1 THEN Arrange(<<FreshTab(ToSet(tabs))>>, 1)
             ELSE Arrange(RemoveAt(tabs, ix), ActiveAfterClose(ix))
          /\ UNCHANGED drafts
  BY DEF CloseTab
<1>2. CASE Len(tabs) = 1
  BY <1>1, <1>2, NewIdentity, OneTab
<1>3. CASE Len(tabs) # 1
  <2> DEFINE ts == RemoveAt(tabs, ix)
             next == ActiveAfterClose(ix)
  <2>1. tabs \in Seq(TabIds) /\ Distinct(tabs) /\ Len(tabs) \in 1..MaxTabs[part] /\ active \in 1..Len(tabs)
    BY DEF StripInv
  <2>2. ts \in Seq(TabIds) /\ Len(ts) = Len(tabs) - 1
    BY <2>1, RemoveIs
  <2>3. Distinct(ts)
    BY <2>1, RemovedDistinct
  <2>4. Arrange(ts, next)
    BY <1>1, <1>3
  <2>5. MaxTabs[part] \in Nat
    BY WindowAssumption
  <2>6. next \in 1..(Len(tabs) - 1)
    <3>1. Len(tabs) \in Nat
      BY <2>1
    <3>2. active \in Nat \ {0} /\ active <= Len(tabs)
      BY <2>1, <3>1
    <3>3. Len(tabs) - 1 >= 1
      BY <1>3, <3>1, <3>2
    <3> QED BY <3>1, <3>2, <3>3 DEF ActiveAfterClose
  <2> HIDE DEF ts, next
  <2>7. Len(ts) \in 1..MaxTabs[part] /\ next \in 1..Len(ts)
    BY <1>3, <2>1, <2>2, <2>5, <2>6
  <2>8. drafts' \in [TabIds -> Drafts]
    BY <1>1 DEF StripInv
  <2> QED BY <2>2, <2>3, <2>4, <2>7, <2>8, ArrangeKeeps
<1> QED BY <1>2, <1>3

PanelInv ==
  panel \in [collapsed : BOOLEAN, section : Sections, width : Widths \cup {None}, narrow : Widths \cup {None}]

\* When the strip changes, the active tab is on the page that is shown.
Reveals == <<tabs, active, rows>>' # <<tabs, active, rows>> => Faces'

\* Nothing of the strip but its width changes.
LEMMA StripStays ==
  ASSUME part' = part, StripInv, UNCHANGED <<tabs, active, rows, drafts>>, page' \in Nat, perRow' \in Nat
  PROVE  StripInv' /\ Reveals
<1>1. TabIds' = TabIds
  BY DEF TabIds
<1> QED BY <1>1 DEF StripInv, Reveals, Distinct

LEMMA StepKeeps ==
  ASSUME part \in Parts, part' = part, StripInv, PersistedIsCurrent, StepTabs, UNCHANGED <<panel, look>>
  PROVE  StripInv' /\ Reveals /\ PersistedIsCurrent'
<1>1. UNCHANGED <<tabs, active, drafts, rows, perRow, written>>
  BY DEF StepTabs
<1>2. page \in Nat /\ perRow \in Nat /\ rows \in {1, MaxTabRows} /\ tabs \in Seq(TabIds) /\ active \in 1..Len(tabs)
  BY DEF StripInv
<1> DEFINE size == TabsPerPage(perRow, rows)
           last == PageCount(Len(tabs), size) - 1
<1>3. last \in Nat
  <2>1. size \in Nat \ {0} /\ Len(tabs) \in Nat \ {0}
    <3>1. Len(tabs) \in Nat
      BY <1>2
    <3>2. size \in Nat \ {0}
      BY <1>2, SizeIs
    <3> QED BY <1>2, <3>1, <3>2
  <2> HIDE DEF size
  <2>2. PageCount(Len(tabs), size) \in Nat \ {0}
    BY <1>2, <2>1, PagesAre
  <2> QED BY <2>2
<1>4. page' \in Nat
  <2>1. \/ ShownPage > 0 /\ page' = Least(page - 1, last)
        \/ page' = Least(page + 1, last)
    BY DEF StepTabs
  <2>2. ShownPage = Least(page, last)
    BY DEF ShownPage
  <2> HIDE DEF last
  <2> QED BY <2>1, <2>2, <1>2, <1>3 DEF Least
<1>5. StripInv' /\ Reveals
  BY <1>1, <1>2, <1>4, StripStays
<1> QED BY <1>1, <1>5 DEF PersistedIsCurrent, WorkspaceState

LEMMA MeasureKeeps ==
  ASSUME part' = part, StripInv, PersistedIsCurrent, Measure, UNCHANGED <<panel, look>>
  PROVE  StripInv' /\ Reveals /\ PersistedIsCurrent'
<1>1. UNCHANGED <<tabs, active, drafts, rows, page, written>> /\ perRow' \in Nat
  BY WindowAssumption DEF Measure
<1>2. StripInv' /\ Reveals
  BY <1>1, StripStays DEF StripInv
<1> QED BY <1>1, <1>2 DEF PersistedIsCurrent, WorkspaceState

LEMMA RowsKeep ==
  ASSUME part' = part, StripInv, ToggleTabRows
  PROVE  StripInv' /\ Faces' /\ PersistedIsCurrent'
<1>1. /\ rows' = IF rows > 1 THEN 1 ELSE MaxTabRows
      /\ page' = Revealed(active, rows', page)
      /\ UNCHANGED <<tabs, active, drafts, perRow>>
      /\ written' = WorkspaceState'
  BY DEF ToggleTabRows, PersistWorkspace
<1>2. page \in Nat /\ perRow \in Nat /\ tabs \in Seq(TabIds) /\ active \in 1..Len(tabs)
  BY DEF StripInv
<1>3. rows' \in {1, MaxTabRows} /\ active \in Nat \ {0}
  BY <1>1, <1>2
<1>4. page' \in Nat /\ (rows' > 1 => page' = (active - 1) \div TabsPerPage(perRow, rows'))
  BY <1>1, <1>2, <1>3, RevealedIs
<1>5. TabIds' = TabIds
  BY DEF TabIds
<1>6. StripInv'
  BY <1>1, <1>3, <1>4, <1>5 DEF StripInv, Distinct
<1>7. Faces'
  BY <1>1, <1>4 DEF Faces
<1> QED BY <1>1, <1>6, <1>7 DEF PersistedIsCurrent

\* A restart finds the strip and the panel as they were written.
LEMMA ReopenKeeps ==
  ASSUME part' = part, StripInv, PanelInv, PersistedIsCurrent, Reopen
  PROVE  StripInv' /\ Reveals /\ PanelInv' /\ PersistedIsCurrent'
<1>1. /\ written.order = tabs /\ written.active = tabs[active] /\ written.rows = rows
      /\ written.collapsed = panel.collapsed /\ written.width = panel.width /\ written.look = look
  BY DEF PersistedIsCurrent, WorkspaceState
<1>2. /\ tabs' = tabs /\ active' = CHOOSE ix \in 1..Len(tabs') : tabs'[ix] = tabs[active]
      /\ rows' = rows /\ page' = Revealed(active', rows', 0)
      /\ panel' = [collapsed |-> panel.collapsed, section |-> "Saved", width |-> panel.width, narrow |-> None]
      /\ look' = look /\ UNCHANGED <<drafts, perRow, written>>
  BY <1>1 DEF Reopen
<1>3. active' = active
  BY <1>2 DEF StripInv, Distinct
<1>4. page' \in Nat
  <2>1. active \in Nat \ {0} /\ rows' \in {1, MaxTabRows} /\ 0 \in Nat /\ perRow \in Nat
    BY <1>2 DEF StripInv
  <2> QED BY <1>2, <1>3, <2>1, RevealedIs
<1>5. perRow' \in Nat
  BY <1>2 DEF StripInv
<1>6. StripInv' /\ Reveals
  BY <1>2, <1>3, <1>4, <1>5, StripStays
<1>7. PanelInv'
  BY <1>2 DEF PanelInv, Sections
<1>8. written' = WorkspaceState'
  <2>1. panel'.width = panel.width /\ panel'.collapsed = panel.collapsed
    BY <1>2
  <2> QED BY <1>2, <1>3, <2>1 DEF PersistedIsCurrent, WorkspaceState
<1> QED BY <1>6, <1>7, <1>8 DEF PersistedIsCurrent

LEMMA StripStep ==
  ASSUME part \in Parts, part' = part, StripInv, PanelInv, PersistedIsCurrent, Strip
  PROVE  StripInv' /\ Reveals /\ PanelInv' /\ PersistedIsCurrent'
<1>1. UNCHANGED <<panel, look>>
  BY DEF Strip
<1>2. PanelInv'
  BY <1>1 DEF PanelInv
<1>3. Len(tabs) \in Nat
  BY DEF StripInv
<1>4. CASE NewTab
  <2>1. NewDraft \in Drafts /\ Len(tabs) + 1 \in 1..(Len(tabs) + 1)
    BY <1>3, WindowAssumption
  <2>2. OpenTab(Len(tabs) + 1, NewDraft)
    BY <1>4 DEF NewTab
  <2> QED BY <1>2, <2>1, <2>2, OpenKeeps DEF Reveals
<1>5. CASE DuplicateTab
  <2>1. PICK ix \in 1..Len(tabs) : OpenTab(ix + 1, drafts[tabs[ix]])
    BY <1>5 DEF DuplicateTab
  <2>2. drafts[tabs[ix]] \in Drafts
    BY DEF StripInv
  <2>3. ix + 1 \in 1..(Len(tabs) + 1)
    BY <1>3
  <2> QED BY <1>2, <2>1, <2>2, <2>3, OpenKeeps DEF Reveals
<1>6. CASE CloseTab
  BY <1>2, <1>6, CloseKeeps DEF Reveals
<1>7. CASE CloseOtherTabs
  <2>1. PICK keep \in 1..Len(tabs) : Arrange(<<tabs[keep]>>, 1) /\ UNCHANGED drafts
    BY <1>7 DEF CloseOtherTabs
  <2>2. tabs[keep] \in TabIds
    BY DEF StripInv
  <2> QED BY <1>2, <2>1, <2>2, OneTab DEF Reveals
<1>8. CASE CloseAllTabs
  <2>1. Arrange(<<FreshTab(ToSet(tabs))>>, 1) /\ UNCHANGED drafts
    BY <1>8 DEF CloseAllTabs
  <2> QED BY <1>2, <2>1, NewIdentity, OneTab DEF Reveals
<1>9. CASE Activate
  <2>1. PICK ix \in 1..Len(tabs) : Arrange(tabs, ix) /\ UNCHANGED drafts
    BY <1>9 DEF Activate
  <2> QED BY <1>2, <2>1, ArrangeKeeps DEF StripInv, Reveals
<1>10. CASE StepTabs
  BY <1>1, <1>2, <1>10, StepKeeps
<1>11. CASE ToggleTabRows
  BY <1>2, <1>11, RowsKeep DEF Reveals
<1>12. CASE Measure
  BY <1>1, <1>2, <1>12, MeasureKeeps
<1>13. CASE Reopen
  BY <1>13, ReopenKeeps
<1> QED BY <1>4, <1>5, <1>6, <1>7, <1>8, <1>9, <1>10, <1>11, <1>12, <1>13 DEF Strip

-----------------------------------------------------------------------------
(* The load test *)

\* A URL: the one of a request, expanded in an environment, or one that was typed.
Url == [draft : Drafts \cup {None}, env : Environments \cup {None}, typed : Hosts \cup {None},
        open : BOOLEAN]

Sent == {None} \cup [method : Drafts \cup {None}, url : Url \cup {None}]

LoadTyped ==
  /\ load \in [draft : Drafts \cup {None}, method : Drafts \cup {None}, url : Url \cup {None},
               base : Url \cup {None}, phase : {"Idle", "Running", "Done"}, sent : Sent]
  /\ load.draft # None => load.url \in Url /\ load.base \in Url

\* Only the lookup of the host that is named is waited for.
HostInv ==
  /\ host \in [for : Hosts \cup {None}, is : {"Unknown", "Loading", "Done"}, name : Hosts \cup {None}]
  /\ lookups \subseteq Hosts /\ lookups \subseteq {host.for}
  /\ HostIsLookedUp

LoadInv == LoadTyped /\ HostInv /\ env \in Environments

LEMMA LookedUp ==
  ASSUME NEW h \in Hosts \cup {None}, LookUp(h)
  PROVE  HostInv'
BY DEF LookUp, HostInv, HostIsLookedUp

LEMMA ExpandedIs ==
  ASSUME NEW d \in Drafts, env \in Environments
  PROVE  ExpandedUrl(d) \in Url
BY DEF ExpandedUrl, Url

LEMMA FilledIs ==
  ASSUME NEW url \in Url, env \in Environments
  PROVE  Filled(url) \in Url
BY DEF Filled, Url

LEMMA TargetKeeps ==
  ASSUME NEW d \in Drafts, LoadInv, env' = env, SetLoadTarget(d)
  PROVE  LoadInv' /\ load'.sent = load.sent
<1>1. CASE load.phase = "Running"
  BY <1>1 DEF SetLoadTarget, loadVars, LoadInv, LoadTyped, HostInv, HostIsLookedUp
<1>2. CASE load.phase # "Running"
  <2>1. /\ load' = [draft |-> d, method |-> d, url |-> ExpandedUrl(d), base |-> ExpandedUrl(d),
                     phase |-> "Idle", sent |-> load.sent]
        /\ LookUp(DraftHost[d])
    BY <1>2 DEF SetLoadTarget
  <2>2. ExpandedUrl(d) \in Url
    BY ExpandedIs DEF LoadInv
  <2>3. load.sent \in Sent
    BY DEF LoadInv, LoadTyped
  <2>4. LoadTyped'
    BY <2>1, <2>2, <2>3 DEF LoadTyped
  <2>5. DraftHost[d] \in Hosts \cup {None}
    BY WindowAssumption
  <2>6. HostInv'
    BY <2>1, <2>5, LookedUp
  <2> QED BY <2>1, <2>4, <2>6 DEF LoadInv
<1> QED BY <1>1, <1>2

LEMMA HostNamed ==
  ASSUME LoadInv, load.draft # None
  PROVE  HostOf(load.url) \in Hosts \cup {None}
<1>1. load.url \in Url
  BY DEF LoadInv, LoadTyped
<1>2. load.url.draft \in Drafts \cup {None} /\ load.url.typed \in Hosts \cup {None}
  BY <1>1 DEF Url
<1>3. load.url.draft # None => DraftHost[load.url.draft] \in Hosts \cup {None}
  BY <1>2, WindowAssumption
<1> QED BY <1>2, <1>3 DEF HostOf

\* What a load test sends is what the panel shows.
SendsTarget ==
  load'.sent # load.sent =>
      /\ load'.sent.method = load.method
      /\ \/ load'.sent.url = Filled(load.url)
         \/ load.url = load.base /\ load'.sent.url = ExpandedUrl(load.draft)

LEMMA LoadStep ==
  ASSUME LoadInv, LoadPanel
  PROVE  LoadInv' /\ SendsTarget
<1>1. CASE UseTab \/ OpenLoadTestFor
  <2>1. PICK d \in Drafts : SetLoadTarget(d) /\ env' = env
    BY <1>1 DEF UseTab, OpenLoadTestFor
  <2> QED BY <2>1, TargetKeeps DEF SendsTarget
<1>2. CASE EditUrl
  <2>1. PICK url \in TypedUrls \cup {load.base} : load' = [load EXCEPT !.url = url]
    BY <1>2 DEF EditUrl
  <2>2. load.draft # None /\ UNCHANGED <<host, lookups, env>>
    BY <1>2 DEF EditUrl
  <2>3. url \in Url
    BY <2>2 DEF LoadInv, LoadTyped, TypedUrls, Url
  <2>4. LoadTyped' /\ load'.sent = load.sent
    BY <2>1, <2>2, <2>3 DEF LoadInv, LoadTyped
  <2> QED BY <2>2, <2>4 DEF LoadInv, HostInv, HostIsLookedUp, SendsTarget
<1>3. CASE EditMethod
  <2>1. PICK m \in Drafts : load' = [load EXCEPT !.method = m]
    BY <1>3 DEF EditMethod
  <2>2. UNCHANGED <<host, lookups, env>>
    BY <1>3 DEF EditMethod
  <2>3. LoadTyped' /\ load'.sent = load.sent
    BY <2>1 DEF LoadInv, LoadTyped
  <2> QED BY <2>2, <2>3 DEF LoadInv, HostInv, HostIsLookedUp, SendsTarget
<1>4. CASE RefreshHost
  <2>1. load.draft # None /\ LookUp(HostOf(load.url)) /\ UNCHANGED <<load, env>>
    BY <1>4 DEF RefreshHost
  <2>2. HostInv'
    BY <2>1, HostNamed, LookedUp
  <2> QED BY <2>1, <2>2 DEF LoadInv, LoadTyped, SendsTarget
<1>5. CASE LookupEnds
  <2>1. PICK h \in lookups :
            /\ lookups' = lookups \ {h}
            /\ \/ host' = [host EXCEPT !.is = "Done", !.name = h]
               \/ host' = [host EXCEPT !.is = "Unknown", !.name = None]
    BY <1>5 DEF LookupEnds
  <2>2. UNCHANGED <<load, env>>
    BY <1>5 DEF LookupEnds
  <2>3. h \in Hosts /\ h = host.for
    BY DEF LoadInv, HostInv
  <2>4. HostInv'
    BY <2>1, <2>3 DEF LoadInv, HostInv, HostIsLookedUp
  <2> QED BY <2>2, <2>4 DEF LoadInv, LoadTyped, SendsTarget
<1>6. CASE Run
  <2>1. /\ load.draft # None /\ UNCHANGED <<host, lookups, env>>
        /\ load' = [load EXCEPT !.phase = "Running", !.sent =
                       IF Overrides THEN [method |-> load.method, url |-> Filled(load.url)]
                       ELSE [method |-> load.draft, url |-> ExpandedUrl(load.draft)]]
    BY <1>6 DEF Run
  <2> DEFINE sent == IF Overrides THEN [method |-> load.method, url |-> Filled(load.url)]
                     ELSE [method |-> load.draft, url |-> ExpandedUrl(load.draft)]
  <2>2. load.draft \in Drafts /\ load.method \in Drafts \cup {None} /\ load.url \in Url
    BY <2>1 DEF LoadInv, LoadTyped
  <2>3. ExpandedUrl(load.draft) \in Url
    BY <2>2, ExpandedIs DEF LoadInv
  <2>4. sent \in Sent
    BY <2>2, <2>3, FilledIs DEF Sent, LoadInv
  <2>5. /\ sent.method = load.method
        /\ \/ sent.url = Filled(load.url)
           \/ load.url = load.base /\ sent.url = ExpandedUrl(load.draft)
    <3>1. CASE Overrides
      <4>1. sent = [method |-> load.method, url |-> Filled(load.url)]
        BY <3>1, Zenon
      <4> HIDE DEF sent
      <4> QED BY <4>1
    <3>2. CASE ~Overrides
      <4>1. load.method = load.draft /\ load.url = load.base
        BY <3>2 DEF Overrides
      <4>2. sent = [method |-> load.draft, url |-> ExpandedUrl(load.draft)]
        BY <3>2, Zenon
      <4> HIDE DEF sent
      <4>3. sent.method = load.draft /\ sent.url = ExpandedUrl(load.draft)
        BY <4>2
      <4> QED BY <4>1, <4>3
    <3> QED BY <3>1, <3>2
  <2> HIDE DEF sent
  <2>6. load' = [load EXCEPT !.phase = "Running", !.sent = sent]
    BY <2>1 DEF sent
  <2>7. LoadTyped' /\ load'.sent = sent
    BY <2>4, <2>6 DEF LoadInv, LoadTyped
  <2> QED BY <2>1, <2>5, <2>7 DEF LoadInv, HostInv, HostIsLookedUp, SendsTarget
<1>7. CASE RunEnds
  <2>1. load' = [load EXCEPT !.phase = "Done"] /\ UNCHANGED <<host, lookups, env>>
    BY <1>7 DEF RunEnds
  <2>2. LoadTyped' /\ load'.sent = load.sent
    BY <2>1 DEF LoadInv, LoadTyped
  <2> QED BY <2>1, <2>2 DEF LoadInv, HostInv, HostIsLookedUp, SendsTarget
<1>8. CASE ChangeEnvironment
  <2>1. env' \in Environments /\ UNCHANGED loadVars
    BY <1>8 DEF ChangeEnvironment
  <2> QED BY <2>1 DEF loadVars, LoadInv, LoadTyped, HostInv, HostIsLookedUp, SendsTarget
<1> QED BY <1>1, <1>2, <1>3, <1>4, <1>5, <1>6, <1>7, <1>8 DEF LoadPanel

\* A restart forgets the target.
LEMMA ForgetKeeps ==
  ASSUME LoadInv, load' = NoLoad, host' = NoHost, lookups' = {}, env' = env
  PROVE  LoadInv'
BY DEF LoadInv, LoadTyped, NoLoad, Sent, HostInv, HostIsLookedUp, NoHost

-----------------------------------------------------------------------------
(* The panel on the left *)

\* The strip stays as it is, and what is written follows the panel.
LEMMA WrittenKeeps ==
  ASSUME part' = part, StripInv, UNCHANGED stripVars
  PROVE  StripInv' /\ Reveals
<1>1. UNCHANGED <<tabs, active, rows, drafts, page, perRow>>
  BY DEF stripVars
<1>2. page' \in Nat /\ perRow' \in Nat
  BY <1>1 DEF StripInv
<1> QED BY <1>1, <1>2, StripStays

LEMMA PanelStep ==
  ASSUME part \in Parts, part' = part, StripInv, PanelInv, PersistedIsCurrent, LoadInv, Panel
  PROVE  /\ StripInv' /\ Reveals /\ PanelInv' /\ PersistedIsCurrent' /\ LoadInv'
         /\ load'.sent = load.sent \/ load' = NoLoad
<1>1. env' = env
  BY DEF Panel, toolVars
<1>2. UNCHANGED loadVars => LoadInv' /\ load'.sent = load.sent
  BY <1>1 DEF loadVars, LoadInv, LoadTyped, HostInv, HostIsLookedUp
<1>3. CASE OpenSection
  <2>1. PICK s \in Sections :
            /\ panel' = IF ~panel.collapsed /\ panel.section = s
                        THEN [panel EXCEPT !.collapsed = TRUE]
                        ELSE [panel EXCEPT !.collapsed = FALSE, !.section = s]
            /\ IF ~panel'.collapsed /\ s = "LoadTest" /\ load.draft = None
               THEN SetLoadTarget(drafts[tabs[active]]) ELSE UNCHANGED loadVars
    BY <1>3 DEF OpenSection
  <2>2. UNCHANGED <<look, stripVars>> /\ written' = WorkspaceState'
    BY <1>3 DEF OpenSection, PersistWorkspace
  <2>3. PanelInv'
    BY <2>1 DEF PanelInv
  <2>4. drafts[tabs[active]] \in Drafts
    BY DEF StripInv
  <2>5. LoadInv' /\ load'.sent = load.sent
    BY <1>1, <1>2, <2>1, <2>4, TargetKeeps
  <2> QED BY <2>2, <2>3, <2>5, WrittenKeeps DEF PersistedIsCurrent
<1>4. CASE ToggleSidebar
  <2> DEFINE off == ~panel.collapsed
  <2>1. /\ panel' = [panel EXCEPT !.collapsed = off] /\ UNCHANGED <<look, stripVars, loadVars>>
        /\ written' = WorkspaceState'
    BY <1>4 DEF ToggleSidebar, PersistWorkspace
  <2>2. off \in BOOLEAN
    OBVIOUS
  <2> HIDE DEF off
  <2>3. PanelInv'
    BY <2>1, <2>2 DEF PanelInv
  <2> QED BY <1>2, <2>1, <2>3, WrittenKeeps DEF PersistedIsCurrent
<1>5. CASE ResizePanel
  <2>1. PICK w \in Widths :
            IF Narrow(panel.section)
            THEN panel' = [panel EXCEPT !.narrow = w] /\ UNCHANGED <<look, stripVars, written>>
            ELSE /\ panel' = [panel EXCEPT !.width = w]
                 /\ UNCHANGED <<look, stripVars>>
                 /\ IF w # panel.width THEN PersistWorkspace ELSE UNCHANGED written
    BY <1>5 DEF ResizePanel
  <2>2. UNCHANGED <<look, stripVars, loadVars>>
    BY <1>5, <2>1 DEF ResizePanel
  <2>3. PanelInv' /\ panel'.collapsed = panel.collapsed
    BY <2>1 DEF PanelInv
  <2>4. PersistedIsCurrent'
    <3>1. CASE written' = written /\ panel'.width = panel.width
      BY <3>1, <2>2, <2>3 DEF PersistedIsCurrent, WorkspaceState, stripVars
    <3>2. CASE PersistWorkspace
      BY <3>2 DEF PersistedIsCurrent, PersistWorkspace
    <3>3. (written' = written /\ panel'.width = panel.width) \/ PersistWorkspace
      BY <2>1 DEF PanelInv
    <3> QED BY <3>1, <3>2, <3>3
  <2> QED BY <1>2, <2>2, <2>3, <2>4, WrittenKeeps
<1>6. CASE ChangeLook
  <2>1. UNCHANGED <<panel, stripVars, loadVars>> /\ written' = WorkspaceState'
    BY <1>6 DEF ChangeLook, PersistWorkspace
  <2>2. PanelInv'
    BY <2>1 DEF PanelInv
  <2> QED BY <1>2, <2>1, <2>2, WrittenKeeps DEF PersistedIsCurrent
<1>7. CASE Reopen
  <2>1. load' = NoLoad /\ host' = NoHost /\ lookups' = {}
    BY <1>7 DEF Reopen
  <2> QED BY <1>1, <1>7, <2>1, ReopenKeeps, ForgetKeeps
<1> QED BY <1>3, <1>4, <1>5, <1>6, <1>7 DEF Panel

-----------------------------------------------------------------------------
(* The sheets *)

Codes ==
  [draft : Drafts \cup {None}, env : Environments \cup {None}, target : Targets,
   text : {<<>>} \cup (Drafts \X (Environments \cup {None}) \X Targets)]

CodeInv ==
  /\ openTool \in Tools \cup {None} /\ sheet \in Tools \cup {None}
  /\ code \in Codes /\ CodeFollowsEnvironment

LEMMA GeneratedIs ==
  ASSUME NEW d \in Drafts \cup {None}, NEW e \in Environments \cup {None}, NEW t \in Targets
  PROVE  Generated(d, e, t) \in {<<>>} \cup (Drafts \X (Environments \cup {None}) \X Targets)
BY DEF Generated

LEMMA RefreshIs ==
  ASSUME StripInv, CodeInv, NEW e \in Environments, RefreshCode(e)
  PROVE  code' \in Codes /\ code'.env = e /\ code'.text = Generated(code'.draft, e, code'.target)
<1> DEFINE d == drafts[tabs[active]]
           text == Generated(d, e, code.target)
<1>1. d \in Drafts /\ code.target \in Targets
  BY DEF StripInv, CodeInv, Codes
<1>2. code' = [draft |-> d, env |-> e, target |-> code.target, text |-> text]
  BY DEF RefreshCode
<1>3. text \in {<<>>} \cup (Drafts \X (Environments \cup {None}) \X Targets)
  BY <1>1, GeneratedIs
<1>4. code'.text = text /\ code'.draft = d /\ code'.env = e /\ code'.target = code.target
  BY <1>2
<1> HIDE DEF d, text
<1>5. code' \in Codes
  BY <1>1, <1>2, <1>3 DEF Codes
<1> QED BY <1>4, <1>5 DEF text

LEMMA SheetsStep ==
  ASSUME part \in Parts, part' = part, StripInv, PanelInv, PersistedIsCurrent, LoadInv, CodeInv, Sheets
  PROVE  /\ StripInv' /\ Reveals /\ PanelInv' /\ PersistedIsCurrent' /\ LoadInv' /\ CodeInv'
         /\ load' = load
<1>1. UNCHANGED <<panel, look, loadVars>>
  BY DEF Sheets
<1>2. PanelInv' /\ load' = load
  BY <1>1 DEF PanelInv, loadVars
<1>3. env' \in Environments => LoadInv'
  BY <1>1 DEF loadVars, LoadInv, LoadTyped, HostInv, HostIsLookedUp
<1>4. env \in Environments /\ None \notin Tools
  BY WindowAssumption DEF LoadInv
<1>5. UNCHANGED <<stripVars, written>> => StripInv' /\ Reveals /\ PersistedIsCurrent'
  BY <1>1, WrittenKeeps DEF PersistedIsCurrent, WorkspaceState, stripVars
<1>6. UNCHANGED toolVars => CodeInv' /\ LoadInv'
  BY <1>3, <1>4 DEF toolVars, CodeInv, CodeFollowsEnvironment
<1>7. CASE ClickTool
  <2>1. PICK t \in Tools :
            IF openTool = t
            THEN openTool' = None /\ sheet' = None /\ UNCHANGED code
            ELSE /\ openTool' = t /\ sheet' = t
                 /\ IF t = "CodeGen" THEN RefreshCode(env) ELSE UNCHANGED code
    BY <1>7 DEF ClickTool
  <2>2. UNCHANGED <<stripVars, written>> /\ env' = env
    BY <1>7 DEF ClickTool
  <2>3. CASE openTool' # "CodeGen" /\ code' = code
    BY <2>1, <2>2, <2>3, <1>2, <1>3, <1>4, <1>5 DEF CodeInv, CodeFollowsEnvironment
  <2>4. CASE openTool' = "CodeGen" /\ sheet' = "CodeGen" /\ RefreshCode(env)
    BY <2>2, <2>4, <1>2, <1>3, <1>4, <1>5, RefreshIs DEF CodeInv, CodeFollowsEnvironment, Tools
  <2>5. "CodeGen" \in Tools
    BY DEF Tools
  <2> QED BY <2>1, <2>3, <2>4, <2>5, <1>4
<1>8. CASE DismissSheet
  <2>1. sheet' = None /\ UNCHANGED <<stripVars, written, openTool, code, env>>
    BY <1>8 DEF DismissSheet
  <2> QED BY <2>1, <1>2, <1>3, <1>4, <1>5 DEF CodeInv, CodeFollowsEnvironment
<1>9. CASE SelectEnvironment
  <2>1. PICK e \in Environments : env' = e /\ IF openTool = "CodeGen" THEN RefreshCode(e) ELSE UNCHANGED code
    BY <1>9 DEF SelectEnvironment
  <2>2. UNCHANGED <<stripVars, written, openTool, sheet>>
    BY <1>9 DEF SelectEnvironment
  <2>3. CodeInv'
    <3>1. CASE openTool = "CodeGen"
      BY <3>1, <2>1, <2>2, RefreshIs DEF CodeInv, CodeFollowsEnvironment
    <3>2. CASE openTool # "CodeGen"
      BY <3>2, <2>1, <2>2 DEF CodeInv, CodeFollowsEnvironment
    <3> QED BY <3>1, <3>2
  <2> QED BY <2>1, <2>2, <2>3, <1>2, <1>3, <1>5
<1>10. CASE SelectTarget
  <2>1. PICK t \in Targets : code' = [code EXCEPT !.target = t, !.text = Generated(code.draft, code.env, t)]
    BY <1>10 DEF SelectTarget
  <2>2. UNCHANGED <<stripVars, written, openTool, sheet, env>>
    BY <1>10 DEF SelectTarget
  <2> DEFINE text == Generated(code.draft, code.env, t)
  <2>3. text \in {<<>>} \cup (Drafts \X (Environments \cup {None}) \X Targets)
    BY GeneratedIs DEF CodeInv, Codes
  <2>4. /\ code'.target = t /\ code'.text = text /\ code'.draft = code.draft /\ code'.env = code.env
        /\ code' \in Codes
    <3> HIDE DEF text
    <3>1. code' = [code EXCEPT !.target = t, !.text = text]
      BY <2>1 DEF text
    <3> QED BY <3>1, <2>3 DEF CodeInv, Codes
  <2>5. CodeFollowsEnvironment'
    BY <2>2, <2>4 DEF CodeInv, CodeFollowsEnvironment
  <2> QED BY <2>2, <2>4, <2>5, <1>2, <1>3, <1>4, <1>5 DEF CodeInv
<1>11. CASE Paste
  <2>1. UNCHANGED <<stripVars, written, openTool, sheet, code, env>>
    BY <1>11 DEF Paste
  <2> QED BY <2>1, <1>2, <1>3, <1>4, <1>5 DEF CodeInv, CodeFollowsEnvironment
<1>12. CASE ImportCurl
  <2>1. /\ pasted \in Drafts /\ OpenTab(Len(tabs) + 1, pasted)
        /\ openTool' = None /\ sheet' = None /\ UNCHANGED <<code, env>>
    BY <1>12 DEF ImportCurl
  <2>2. Len(tabs) + 1 \in 1..(Len(tabs) + 1)
    BY DEF StripInv
  <2>3. StripInv' /\ Faces' /\ PersistedIsCurrent'
    BY <2>1, <2>2, OpenKeeps
  <2>4. CodeInv'
    BY <2>1, <1>4 DEF CodeInv, CodeFollowsEnvironment, Tools
  <2> QED BY <2>1, <2>3, <2>4, <1>2, <1>3, <1>4 DEF Reveals
<1>13. CASE EditTab
  <2>1. PICK d \in Drafts : drafts' = [drafts EXCEPT ![tabs[active]] = d]
    BY <1>13 DEF EditTab
  <2>2. UNCHANGED <<tabs, active, rows, page, perRow, written, toolVars>>
    BY <1>13 DEF EditTab
  <2>3. drafts' \in [TabIds -> Drafts] /\ TabIds' = TabIds
    BY <2>1 DEF StripInv, TabIds
  <2>4. StripInv' /\ Reveals
    BY <2>2, <2>3 DEF StripInv, Distinct, Reveals
  <2>5. PersistedIsCurrent'
    BY <2>2, <1>1 DEF PersistedIsCurrent, WorkspaceState
  <2> QED BY <2>2, <2>4, <2>5, <1>2, <1>6
<1>14. CASE OpenByKey
  <2>1. UNCHANGED toolVars
    BY <1>14 DEF OpenByKey
  <2>2. CASE NewTab
    <3>1. NewDraft \in Drafts /\ Len(tabs) + 1 \in 1..(Len(tabs) + 1) /\ OpenTab(Len(tabs) + 1, NewDraft)
      BY <2>2, WindowAssumption DEF NewTab, StripInv
    <3> QED BY <3>1, <2>1, <1>2, <1>6, OpenKeeps DEF Reveals
  <2>3. CASE DuplicateTab
    <3>1. PICK ix \in 1..Len(tabs) : OpenTab(ix + 1, drafts[tabs[ix]])
      BY <2>3 DEF DuplicateTab
    <3>2. drafts[tabs[ix]] \in Drafts /\ ix + 1 \in 1..(Len(tabs) + 1)
      BY DEF StripInv
    <3> QED BY <3>1, <3>2, <2>1, <1>2, <1>6, OpenKeeps DEF Reveals
  <2> QED BY <1>14, <2>2, <2>3 DEF OpenByKey
<1> QED BY <1>7, <1>8, <1>9, <1>10, <1>11, <1>12, <1>13, <1>14 DEF Sheets

-----------------------------------------------------------------------------
(* The window *)

\* Only the part that is used leaves what it starts with.
WInv ==
  /\ part \in Parts
  /\ StripInv /\ PanelInv /\ PersistedIsCurrent
  /\ LoadInv /\ CodeInv
  /\ part # "sheets" => openTool = None
  /\ part # "load" => load.sent = None
  /\ OfferInv /\ ImportInv

LEMMA WInit == Init => WInv
<1> SUFFICES ASSUME Init PROVE WInv
  OBVIOUS
<1>1. /\ part \in Parts
      /\ tabs = <<1>> /\ active = 1 /\ drafts = [t \in TabIds |-> NewDraft]
      /\ rows = 1 /\ page = 0 /\ perRow = 0
      /\ panel = [collapsed |-> TRUE, section |-> "Saved", width |-> None, narrow |-> None]
      /\ written = WorkspaceState
      /\ openTool = None /\ sheet = None /\ code = NoCode
      /\ env \in Environments
      /\ load = NoLoad /\ host = NoHost /\ lookups = {}
  BY DEF Init
<1>2. StripInv
  <2>1. MaxTabs[part] \in Nat \ {0}
    BY <1>1, WindowAssumption
  <2>2. 1 \in TabIds
    BY <2>1 DEF TabIds
  <2>3. tabs \in Seq(TabIds) /\ Len(tabs) = 1 /\ Distinct(tabs)
    BY <1>1, <2>2 DEF Distinct
  <2>4. drafts \in [TabIds -> Drafts]
    BY <1>1, WindowAssumption
  <2> QED BY <1>1, <2>1, <2>3, <2>4 DEF StripInv
<1>3. PanelInv
  BY <1>1 DEF PanelInv, Sections
<1>4. LoadInv
  BY <1>1 DEF LoadInv, LoadTyped, NoLoad, Sent, HostInv, HostIsLookedUp, NoHost
<1>5. CodeInv
  BY <1>1, WindowAssumption DEF CodeInv, Codes, NoCode, CodeFollowsEnvironment, Targets, Tools
<1>6. OfferInv /\ ImportInv
  BY OfferInit, ImportInit DEF Init
<1> QED BY <1>1, <1>2, <1>3, <1>4, <1>5, <1>6 DEF WInv, PersistedIsCurrent, NoLoad

\* What a part of the window that is not used keeps.
LEMMA StripKept ==
  ASSUME part' = part, StripInv, PersistedIsCurrent, UNCHANGED <<stripVars, panel, look, written>>
  PROVE  StripInv' /\ Reveals /\ PersistedIsCurrent'
BY WrittenKeeps DEF PersistedIsCurrent, WorkspaceState, stripVars

LEMMA PanelKept == PanelInv /\ UNCHANGED panel => PanelInv'
BY DEF PanelInv

\* Only the target that is opened from the list of recorded requests shows the panel,
\* and is written.
LEMMA LoadPanelStays ==
  ASSUME part' = part, StripInv, PanelInv, PersistedIsCurrent, LoadPanel
  PROVE  StripInv' /\ Reveals /\ PanelInv' /\ PersistedIsCurrent'
<1>1. UNCHANGED <<stripVars, look>>
  BY DEF LoadPanel
<1>2. CASE OpenLoadTestFor
  <2>1. panel' = [panel EXCEPT !.section = "LoadTest", !.collapsed = FALSE] /\ written' = WorkspaceState'
    BY <1>2 DEF OpenLoadTestFor, PersistWorkspace
  <2>2. PanelInv'
    BY <2>1 DEF PanelInv, Sections
  <2> QED BY <1>1, <2>1, <2>2, WrittenKeeps DEF PersistedIsCurrent
<1>3. CASE UNCHANGED <<panel, written>>
  BY <1>1, <1>3, StripKept, PanelKept
<1> QED BY <1>2, <1>3 DEF LoadPanel

LEMMA LoadKept == LoadInv /\ UNCHANGED <<loadVars, env>> => LoadInv'
BY DEF loadVars, LoadInv, LoadTyped, HostInv, HostIsLookedUp

LEMMA CodeKept == CodeInv /\ UNCHANGED toolVars => CodeInv'
BY DEF toolVars, CodeInv, CodeFollowsEnvironment

LEMMA OfferKept == OfferInv /\ UNCHANGED updaterVars => OfferInv'
BY OfferStep

LEMMA ImportKept == ImportInv /\ UNCHANGED importVars => ImportInv'
BY ImportStep

\* A step keeps the invariant, shows the active tab and sends what is shown.
LEMMA WStep == WInv /\ [Next]_vars => WInv' /\ (UNCHANGED vars \/ Reveals) /\ SendsTarget
<1> SUFFICES ASSUME WInv, [Next]_vars PROVE WInv' /\ (UNCHANGED vars \/ Reveals) /\ SendsTarget
  OBVIOUS
<1> USE DEF WInv
<1>1. CASE part = "strip" /\ Strip
  <2>1. part' = part /\ UNCHANGED <<toolVars, loadVars, updaterVars, importVars>>
    BY <1>1 DEF Strip
  <2>2. StripInv' /\ Reveals /\ PanelInv' /\ PersistedIsCurrent'
    BY <1>1, <2>1, StripStep
  <2>3. openTool' = openTool /\ env' = env /\ load' = load
    BY <2>1 DEF toolVars, loadVars
  <2>4. LoadInv' /\ CodeInv' /\ OfferInv' /\ ImportInv'
    BY <2>1, <2>3, LoadKept, CodeKept, OfferKept, ImportKept
  <2> QED BY <1>1, <2>1, <2>2, <2>3, <2>4 DEF SendsTarget
<1>2. CASE part = "panel" /\ Panel
  <2>1. part' = part /\ UNCHANGED <<toolVars, updaterVars, importVars>>
    BY <1>2 DEF Panel
  <2>2. /\ StripInv' /\ Reveals /\ PanelInv' /\ PersistedIsCurrent' /\ LoadInv'
        /\ load'.sent = load.sent \/ load' = NoLoad
    BY <1>2, <2>1, PanelStep
  <2>3. openTool' = openTool /\ load'.sent = None
    BY <1>2, <2>1, <2>2 DEF toolVars, NoLoad
  <2>4. CodeInv' /\ OfferInv' /\ ImportInv'
    BY <2>1, CodeKept, OfferKept, ImportKept
  <2> QED BY <1>2, <2>1, <2>2, <2>3, <2>4 DEF SendsTarget
<1>3. CASE part = "sheets" /\ Sheets
  <2>1. part' = part /\ UNCHANGED <<updaterVars, importVars>>
    BY <1>3 DEF Sheets
  <2>2. /\ StripInv' /\ Reveals /\ PanelInv' /\ PersistedIsCurrent' /\ LoadInv' /\ CodeInv'
        /\ load' = load
    BY <1>3, <2>1, SheetsStep
  <2>3. OfferInv' /\ ImportInv'
    BY <2>1, OfferKept, ImportKept
  <2> QED BY <1>3, <2>1, <2>2, <2>3 DEF SendsTarget
<1>4. CASE part = "load" /\ LoadPanel
  <2>1. /\ part' = part
        /\ UNCHANGED <<openTool, sheet, code, updaterVars, importVars>>
    BY <1>4 DEF LoadPanel
  <2>2. LoadInv' /\ SendsTarget
    BY <1>4, LoadStep
  <2>3. StripInv' /\ Reveals /\ PersistedIsCurrent' /\ PanelInv' /\ OfferInv' /\ ImportInv'
    BY <1>4, <2>1, LoadPanelStays, OfferKept, ImportKept
  <2>4. None # "CodeGen"
    BY WindowAssumption DEF Tools
  <2>5. openTool' = None /\ CodeInv'
    BY <1>4, <2>1, <2>4 DEF CodeInv, CodeFollowsEnvironment
  <2> QED BY <1>4, <2>1, <2>2, <2>3, <2>5
<1>5. CASE part = "updates" /\ Updates
  <2>1. UNCHANGED <<part, stripVars, panel, look, written, toolVars, loadVars, importVars>> /\ UpdaterNext
    BY <1>5 DEF Updates
  <2>2. openTool' = openTool /\ env' = env /\ load' = load
    BY <2>1 DEF toolVars, loadVars
  <2>3. StripInv' /\ Reveals /\ PersistedIsCurrent' /\ PanelInv'
    BY <2>1, StripKept, PanelKept
  <2>4. LoadInv' /\ CodeInv' /\ ImportInv' /\ OfferInv'
    BY <2>1, <2>2, LoadKept, CodeKept, ImportKept, OfferStep
  <2> QED BY <1>5, <2>1, <2>2, <2>3, <2>4 DEF SendsTarget
<1>6. CASE part = "import" /\ Import
  <2>1. UNCHANGED <<part, stripVars, panel, look, written, toolVars, loadVars, updaterVars>> /\ ImporterNext
    BY <1>6 DEF Import
  <2>2. openTool' = openTool /\ env' = env /\ load' = load
    BY <2>1 DEF toolVars, loadVars
  <2>3. StripInv' /\ Reveals /\ PersistedIsCurrent' /\ PanelInv'
    BY <2>1, StripKept, PanelKept
  <2>4. LoadInv' /\ CodeInv' /\ OfferInv' /\ ImportInv'
    BY <2>1, <2>2, LoadKept, CodeKept, OfferKept, ImportStep
  <2> QED BY <1>6, <2>1, <2>2, <2>3, <2>4 DEF SendsTarget
<1>7. CASE UNCHANGED vars
  <2>1. UNCHANGED <<part, stripVars, panel, look, written, toolVars, loadVars, updaterVars, importVars>>
    BY <1>7 DEF vars
  <2>2. openTool' = openTool /\ env' = env /\ load' = load
    BY <2>1 DEF toolVars, loadVars
  <2>3. StripInv' /\ PersistedIsCurrent' /\ PanelInv'
    BY <2>1, StripKept, PanelKept
  <2>4. LoadInv' /\ CodeInv' /\ OfferInv' /\ ImportInv'
    BY <2>1, <2>2, LoadKept, CodeKept, OfferKept, ImportKept
  <2> QED BY <1>7, <2>1, <2>2, <2>3, <2>4 DEF SendsTarget
<1> HIDE DEF WInv
<1> QED BY <1>1, <1>2, <1>3, <1>4, <1>5, <1>6, <1>7 DEF Next

LEMMA WHolds == Spec => []WInv
<1>1. WInv /\ [Next]_vars => WInv'
  BY WStep
<1> QED BY <1>1, WInit, PTL DEF Spec

LEMMA WTyped == WInv => TypeOK
<1> SUFFICES ASSUME WInv PROVE TypeOK
  OBVIOUS
<1>1. StripInv /\ CodeInv /\ LoadInv /\ OfferInv /\ ImportInv /\ part \in Parts
  BY DEF WInv
<1>2. /\ tabs \in Seq(TabIds) /\ Len(tabs) \in 1..MaxTabs[part] /\ Distinct(tabs) /\ active \in 1..Len(tabs)
      /\ rows \in {1, MaxTabRows} /\ page \in Nat /\ perRow \in Nat /\ drafts \in [TabIds -> Drafts]
  BY <1>1 DEF StripInv
<1>3. Cardinality(ToSet(tabs)) = Len(tabs)
  BY <1>2, DistinctCount
<1>4. ToSet(tabs) \subseteq TabIds
  BY <1>2 DEF ToSet
<1>5. TabsOf(tabs, page, perRow, rows) # <<>>
  BY <1>2, ShownIs
<1>6. ShownTabs # <<>>
  BY <1>5, PageIsShown
<1>7. tabs # <<>>
  BY <1>2
<1>8. openTool \in Tools \cup {None} /\ sheet \in Tools \cup {None} /\ lookups \subseteq Hosts
  BY <1>1 DEF CodeInv, LoadInv, HostInv
<1>9. UpdaterTypeOK /\ ImporterTypeOK
  BY <1>1 DEF OfferInv, ImportInv
<1> QED BY <1>2, <1>3, <1>4, <1>6, <1>7, <1>8, <1>9 DEF TypeOK

\* Whatever is clicked, typed, answered or resized: the page that is shown
\* exists and has tabs, no tab is listed twice, workspace.json holds the tabs,
\* the panel and the look of the moment, the code sheet the code under the
\* active environment, and the panel of the load test the answer about the
\* host it names (persist_workspace, refresh_code_sheet, lookup_host).
THEOREM WindowFollows == Spec => []PanelsFollow
<1>1. WInv => PanelsFollow
  BY WTyped DEF WInv, PanelsFollow, CodeInv, LoadInv, HostInv
<1> QED BY <1>1, WHolds, PTL

\* With several rows, no operation on the strip leaves the active tab on a
\* page that is not shown (reveal_active_tab).
THEOREM ActiveShown == Spec => ActiveIsRevealed
<1>1. ASSUME WInv, [Next]_vars
      PROVE  [rows' > 1 /\ <<tabs, active, rows>>' # <<tabs, active, rows>>
                 => (tabs[active] \in ToSet(ShownTabs))']_vars
  <2>1. WInv' /\ (UNCHANGED vars \/ Reveals)
    BY <1>1, WStep
  <2>2. StripInv'
    BY <2>1 DEF WInv
  <2>3. Faces' => (rows' > 1 => (tabs[active] \in ToSet(ShownTabs))')
    BY <2>2, FacedIsRevealed
  <2> QED BY <2>1, <2>3 DEF Reveals
<1> QED BY <1>1, WHolds, PTL DEF Spec, ActiveIsRevealed

\* A load test sends the method and the URL that its panel shows, with the
\* variables of the moment (run_load_test, overrides).
THEOREM ShownIsSent == Spec => RunSendsTarget
<1>1. ASSUME WInv, [Next]_vars
      PROVE  [load'.sent # load.sent =>
                 /\ load'.sent.method = load.method
                 /\ \/ load'.sent.url = Filled(load.url)
                    \/ load.url = load.base /\ load'.sent.url = ExpandedUrl(load.draft)]_vars
  BY <1>1, WStep DEF SendsTarget
<1> QED BY <1>1, WHolds, PTL DEF Spec, RunSendsTarget

\* The window installs what the updater offered, when it may replace itself.
THEOREM WindowInstallsOffer == Spec => []InstallsTheOffer
<1>1. WInv => InstallsTheOffer
  BY DEF WInv, OfferInv
<1> QED BY <1>1, WHolds, PTL
=============================================================================
