------------------------------ MODULE Updater -------------------------------
(***************************************************************************)
(* The updater inside the program (state/update.rs) on the engine it       *)
(* drives (vendor/gpui-updater): a check asks the source that the settings *)
(* name for the latest release, a download is verified and installed in    *)
(* place, and a restart runs it.  The settings may change, releases may    *)
(* appear and the timer of the first check may fire while a check or a     *)
(* download is under way on a background thread.                           *)
(*                                                                         *)
(* A release is its version, whether it advertises a signature and a       *)
(* checksum, and whether the artifact is what they say.                    *)
(***************************************************************************)
EXTENDS Naturals, Sequences

CONSTANTS
    Languages,      \* the interface languages
    Chinese,        \* the one that means the mirror
    SystemLanguage, \* what the system asks for
    MaxVersion      \* bound: versions published

ASSUME UpdaterAssumption ==
    /\ Chinese \in Languages /\ SystemLanguage \in Languages
    /\ MaxVersion \in Nat \ {0}

VARIABLES
    kind,       \* InstallKind of this process
    running,    \* the version that runs
    prefs,      \* the settings read here: source, language, check on launch
    current,    \* the state that SwitchableSource shares: the resolved source
    sources,    \* what each source publishes as its latest release
    status,     \* UpdateStatus, without the progress of a download
    available,  \* the release found by the last successful check
    task,       \* the background work: what it does and what it has found
    timer       \* the first check is still to come

updaterVars == <<kind, running, prefs, current, sources, status, available, task, timer>>

Sources   == {"Global", "ChinaMirror"}
Kinds     == {"Installed", "DevBuild", "Translocated"}
Nothing   == [version |-> 0, advertised |-> FALSE, genuine |-> FALSE]
Releases  == [version : 1..MaxVersion, advertised : BOOLEAN, genuine : BOOLEAN]
Idle      == [does |-> "nothing", found |-> Nothing]

\* i18n::resolve: the language of the interface for a preference.
Locale(language) == IF language = "System" THEN SystemLanguage ELSE language

\* resolve_source: automatic means the mirror for Chinese and GitHub otherwise.
ResolveSource(pref, locale) ==
    IF pref # "Auto" THEN pref
    ELSE IF locale = Chinese THEN "ChinaMirror" ELSE "Global"

Resolved == ResolveSource(prefs.source, Locale(prefs.language))

IsBusy == status.is \in {"Checking", "Downloading", "Installing"}

Is(s)          == [is |-> s, version |-> 0]
IsWith(s, r)   == [is |-> s, version |-> r.version]

\* hint_version: what the status bar shows.
Hint == IF status.is \in {"Available", "Staged"} THEN <<status.version, status.is = "Staged">> ELSE <<>>

UpdaterInit ==
    /\ kind \in Kinds
    /\ running = 1
    /\ prefs \in [source : {"Auto"}, language : {"System"}, onLaunch : BOOLEAN]
    /\ current = Resolved
    /\ sources = [s \in Sources |-> [version |-> 1, advertised |-> TRUE, genuine |-> TRUE]]
    /\ status = Is("Idle") /\ available = Nothing /\ task = Idle
    /\ timer = (prefs.onLaunch /\ kind = "Installed")

\* A release appears at GitHub, or the job copies the latest one to the mirror.
Publish ==
    /\ \/ \E r \in Releases :
            /\ r.version = sources["Global"].version + 1
            /\ sources' = [sources EXCEPT !["Global"] = r]
       \/ /\ sources["ChinaMirror"] # sources["Global"]
          /\ sources' = [sources EXCEPT !["ChinaMirror"] = sources["Global"]]
    /\ UNCHANGED <<kind, running, prefs, current, status, available, task, timer>>

SyncSourceOfPreference(next) ==
    current' = IF next.source # prefs.source
               THEN ResolveSource(next.source, Locale(next.language)) ELSE current

\* settings::update with sync_source: the source is computed anew when the
\* preference or the language changes.
SyncSource(next) ==
    current' = IF next.source # prefs.source \/ next.language # prefs.language
               THEN ResolveSource(next.source, Locale(next.language)) ELSE current

ChangeSettings ==
    \E next \in [source : Sources \cup {"Auto"}, language : Languages \cup {"System"},
                 onLaunch : {prefs.onLaunch}] :
        /\ next # prefs
        /\ prefs' = next
        /\ SyncSource(next)
        /\ UNCHANGED <<kind, running, sources, status, available, task, timer>>

StartCheck ==
    IF IsBusy THEN UNCHANGED <<status, task>>
    ELSE /\ status' = Is("Checking")
         /\ task' = [Idle EXCEPT !.does = "fetch"]

\* The buttons that check, as render_update_row offers them.
Check ==
    /\ status.is \in {"Idle", "UpToDate", "Checking", "Errored"}
    /\ StartCheck
    /\ UNCHANGED <<kind, running, prefs, current, sources, available, timer>>

\* schedule_launch_check: its timer asks for a check whatever has happened since.
LaunchCheck ==
    /\ timer
    /\ timer' = FALSE
    /\ StartCheck
    /\ UNCHANGED <<kind, running, prefs, current, sources, available>>

\* fetch_latest on the background thread: reads the shared source now.
Fetch ==
    /\ task.does = "fetch"
    /\ task' = [Idle EXCEPT !.does = "fetched", !.found = sources[current]]
    /\ UNCHANGED <<kind, running, prefs, current, sources, status, available, timer>>

FetchFails ==
    /\ task.does = "fetch"
    /\ task' = Idle
    /\ status' = Is("Errored")
    /\ UNCHANGED <<kind, running, prefs, current, sources, available, timer>>

CheckedOrSame ==
    /\ task.does = "fetched"
    /\ task' = Idle
    /\ IF task.found.version >= running /\ task.found.advertised
       THEN status' = IsWith("Available", task.found) /\ available' = task.found
       ELSE status' = Is("UpToDate") /\ UNCHANGED available
    /\ UNCHANGED <<kind, running, prefs, current, sources, timer>>

\* UpdateEngine::check and its answer: newer, and verifiable under Strict.
Checked ==
    /\ task.does = "fetched"
    /\ task' = Idle
    /\ IF task.found.version > running /\ task.found.advertised
       THEN status' = IsWith("Available", task.found) /\ available' = task.found
       ELSE /\ status' = Is(IF task.found.version > running THEN "Errored" ELSE "UpToDate")
            /\ UNCHANGED available
    /\ UNCHANGED <<kind, running, prefs, current, sources, timer>>

CanInstallAnywhere == status.is = "Available"

CanInstall == kind = "Installed" /\ status.is = "Available"

\* download_and_install, here and in the engine.
Download ==
    /\ CanInstall
    /\ ~IsBusy /\ available # Nothing
    /\ status' = Is("Downloading")
    /\ task' = [Idle EXCEPT !.does = "download", !.found = available]
    /\ UNCHANGED <<kind, running, prefs, current, sources, available, timer>>

VerifiesNothing(r) == TRUE

\* verify_artifact under Verification::Strict
Verifies(r) == r.advertised /\ r.genuine

Downloaded ==
    /\ task.does = "download"
    /\ \/ /\ Verifies(task.found)
          /\ status' = Is("Installing")
          /\ task' = [task EXCEPT !.does = "install"]
       \/ /\ status' = Is("Errored") /\ task' = Idle
    /\ UNCHANGED <<kind, running, prefs, current, sources, available, timer>>

Installed ==
    /\ task.does = "install"
    /\ \/ status' = IsWith("Staged", task.found)
       \/ status' = Is("Errored")
    /\ task' = Idle
    /\ UNCHANGED <<kind, running, prefs, current, sources, available, timer>>

\* restart, after which the installed version runs and launches its own check.
Restart ==
    /\ status.is = "Staged"
    /\ running' = status.version
    /\ status' = Is("Idle") /\ available' = Nothing /\ task' = Idle
    /\ timer' = prefs.onLaunch
    /\ current' = Resolved
    /\ UNCHANGED <<kind, prefs, sources>>

UpdaterNext ==
    \/ Publish \/ ChangeSettings \/ Check \/ LaunchCheck \/ Fetch \/ FetchFails
    \/ Checked \/ Download \/ Downloaded \/ Installed \/ Restart

UpdaterSpec == UpdaterInit /\ [][UpdaterNext]_updaterVars

UpdaterTypeOK ==
    /\ kind \in Kinds /\ running \in 1..MaxVersion
    /\ prefs \in [source : Sources \cup {"Auto"}, language : Languages \cup {"System"},
                  onLaunch : BOOLEAN]
    /\ current \in Sources /\ sources \in [Sources -> Releases]
    /\ status \in [is : {"Idle", "Checking", "UpToDate", "Available", "Downloading",
                         "Installing", "Staged", "Errored"}, version : 0..MaxVersion]
    /\ available \in Releases \cup {Nothing}
    /\ task \in [does : {"nothing", "fetch", "fetched", "download", "install"}, found : Releases \cup {Nothing}]
    /\ timer \in BOOLEAN

(***************************************************************************)
(* Properties                                                              *)
(***************************************************************************)

\* Whatever preference or language was changed, and in whichever order, the
\* next fetch asks the source that the settings and the language name
\* (sync_source, SwitchableSource::fetch_latest).
SourceFollowsSettings == current = Resolved

\* What is offered is newer than what runs, and what is installed is exactly
\* what was offered: checks, timers and new releases that come between the
\* offer and the end of the installation do not exchange it (check and
\* download_and_install of the engine, can_install).
InstallsTheOffer ==
    /\ status.is \in {"Available", "Staged"} =>
           status.version = available.version /\ status.version > running
    /\ task.does \in {"download", "install"} => task.found = available /\ IsBusy

\* Only a proper installation replaces itself, and only by an artifact that
\* matches the advertised checksum and signature (can_install, verify_artifact).
OnlyVerifiedRuns ==
    [][ status'.is = "Staged" /\ status.is # "Staged" =>
            kind = "Installed" /\ available.genuine /\ available.advertised ]_updaterVars
=============================================================================
