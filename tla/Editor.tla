------------------------------- MODULE Editor -------------------------------
(***************************************************************************)
(* The editor of one request: the tables of rows (ui/kv_table.rs), the     *)
(* table of operations (ui/ops_table.rs), the rows of the path parameters, *)
(* which follow the URL, and the file of a binary body                     *)
(* (state/request_tab.rs).  The widgets hold the request; draft() reads it *)
(* from them, load_draft() fills them, and every edit reports itself so    *)
(* that the tab is marked as changed.                                      *)
(*                                                                         *)
(* The parts share nothing but the mark, so a behaviour edits one of them: *)
(* part, which is a bound.  A row of operations is shown by what its kind  *)
(* means: an assertion or an extraction, from a named place (a JSON path,  *)
(* a header) or from the status.                                           *)
(***************************************************************************)
EXTENDS Integers, Sequences, FiniteSets, SequencesExt, Places

CONSTANTS
    Texts,      \* what can be typed into an input, apart from nothing
    Names,      \* the names of path parameters
    Files,      \* the files that can be chosen
    NoFile,     \* no file, no size
    MaxRows,    \* rows of a table, the empty one included
    MaxReads    \* sizes of files being read at a time

ASSUME EditorAssumption ==
    /\ "" \notin Texts /\ NoFile \notin Files
    /\ MaxRows \in Nat \ {0} /\ MaxReads \in Nat

VARIABLES
    part,       \* the part of the request that is edited
    fields,     \* the rows of the form-data table
    url,        \* the names of the path parameters in the URL
    pathRows,   \* the rows of the path parameters
    opRows,     \* the rows of the post-operations
    body,       \* the binary body: chosen file and the size shown
    loaded,     \* the request the editor was filled with or that was saved, while unmarked
    marked,     \* the tab is marked as changed
    fileDialog, \* the open file dialog: the row it was opened for, or NoFile
    reads       \* the files whose size is being read in the background

editorVars == <<part, fields, url, pathRows, opRows, body, loaded, marked, fileDialog, reads>>

Inputs == Texts \cup {""}

(***************************************************************************)
(* Rows of the form-data table                                             *)
(***************************************************************************)
FieldRow(key, text) ==
    [key |-> key, text |-> text, on |-> TRUE, kind |-> "Text", file |-> NoFile, size |-> NoFile]

EmptyField == FieldRow("", "")

FieldRows == [key : Inputs, text : Inputs, on : BOOLEAN, kind : {"Text", "File"},
              file : Files \cup {NoFile}, size : Files \cup {NoFile}]

\* row_is_empty: a row that is a file holds nothing but its file.
FieldIsEmpty(r) == r.key = "" /\ (IF r.kind = "Text" THEN r.text = "" ELSE r.file = NoFile)

\* ensure_trailing_empty_row
FieldsClosed(rows) ==
    IF rows = <<>> \/ ~FieldIsEmpty(Last(rows)) THEN Append(rows, EmptyField) ELSE rows

\* form_fields: the rows that are not empty, each with what its kind shows.
FieldDraft(r) ==
    [key |-> r.key, on |-> r.on, kind |-> r.kind, value |-> IF r.kind = "Text" THEN r.text ELSE r.file]

FormFields(rows) ==
    Picked([i \in DOMAIN rows |-> FieldDraft(rows[i])], {i \in DOMAIN rows : ~FieldIsEmpty(rows[i])})

\* set_form_fields: one row for each field and an empty one at the end.
FieldsOf(draft) ==
    Append([i \in DOMAIN draft |->
              IF draft[i].kind = "Text"
              THEN [FieldRow(draft[i].key, draft[i].value) EXCEPT !.on = draft[i].on]
              ELSE [FieldRow(draft[i].key, "") EXCEPT !.on = draft[i].on, !.kind = "File",
                                                      !.file = draft[i].value]],
           EmptyField)

(***************************************************************************)
(* Rows of operations                                                      *)
(***************************************************************************)
OpRow(assert, named, test, a, b) ==
    [on |-> TRUE, assert |-> assert, named |-> named, test |-> test, a |-> a, b |-> b]

EmptyOp == OpRow(FALSE, TRUE, "Equals", "", "")

OpRows == [on : BOOLEAN, assert : BOOLEAN, named : BOOLEAN, test : {"Equals", "Exists"},
           a : Inputs, b : Inputs]

\* active_inputs, active_texts: an input that means nothing to the kind counts
\* as empty and keeps its text.
TextA(r) == IF r.named THEN r.a ELSE ""
TextB(r) == IF r.assert /\ r.test = "Exists" THEN "" ELSE r.b
OpIsEmpty(r) == TextA(r) = "" /\ TextB(r) = ""

OpsClosed(rows) == IF rows = <<>> \/ ~OpIsEmpty(Last(rows)) THEN Append(rows, EmptyOp) ELSE rows

\* build_post_op: an extraction has no test.
OpDraft(r) ==
    [on |-> r.on, assert |-> r.assert, named |-> r.named,
     test |-> IF r.assert THEN r.test ELSE NoFile, a |-> TextA(r), b |-> TextB(r)]

PostOps(rows) ==
    Picked([i \in DOMAIN rows |-> OpDraft(rows[i])], {i \in DOMAIN rows : ~OpIsEmpty(rows[i])})

\* set_post_ops
OpsOf(draft) ==
    Append([i \in DOMAIN draft |->
              [draft[i] EXCEPT !.test = IF draft[i].assert THEN @ ELSE "Equals"]], EmptyOp)

(***************************************************************************)
(* Path parameters                                                         *)
(***************************************************************************)
\* values: a row is kept also without a value, since its name is not empty.
PathDraft(rows) == rows

\* Variant: the rows are renamed in place.
SyncedInPlace(rows, names) ==
    [i \in DOMAIN names |-> [name |-> names[i], value |-> IF i \in DOMAIN rows THEN rows[i].value ELSE ""]]

PathRows == [name : Names, value : Inputs]

\* sync_keys: the rows get the names of the URL; a name that stays keeps its value.
Synced(rows, names) ==
    [i \in DOMAIN names |->
        LET at == SelectInSeq(rows, LAMBDA r : r.name = names[i]) IN
        [name |-> names[i], value |-> IF at = 0 THEN "" ELSE rows[at].value]]

(***************************************************************************)
(* The whole request                                                       *)
(***************************************************************************)
DraftOf(f, u, p, o, b) ==
    [fields |-> FormFields(f), url |-> u, path |-> PathDraft(p), ops |-> PostOps(o), file |-> b.path]

EditorDraft == DraftOf(fields, url, pathRows, opRows, body)

\* Requests the editor is filled with: such as it has saved before.
FieldDrafts == {FieldDraft(r) : r \in {q \in FieldRows : ~FieldIsEmpty(q)}}
OpDrafts == {OpDraft(r) : r \in {q \in OpRows : ~OpIsEmpty(q)}}

NameLists == {<<>>} \cup {<<m>> : m \in Names} \cup {<<m, n>> : m \in Names, n \in Names} 

Urls == {names \in NameLists : \A i, j \in DOMAIN names : names[i] = names[j] => i = j}

\* load_draft: no event, so no mark; the size of a file is read in the background.
EditorInit ==
    /\ part \in {"fields", "path", "ops", "file"}
    /\ \E f \in {<<>>} \cup {<<d>> : d \in FieldDrafts}, u \in Urls, v \in Inputs,
          o \in {<<>>} \cup {<<d>> : d \in OpDrafts}, p \in Files \cup {NoFile} :
          /\ (part = "fields") \/ (f = <<>>)
          /\ (part = "path") \/ (u = <<>> /\ v = "")
          /\ (part = "ops") \/ (o = <<>>)
          /\ (part = "file") \/ (p = NoFile)
          /\ loaded = [fields |-> f, url |-> u, path |-> [i \in DOMAIN u |-> [name |-> u[i], value |-> v]],
                       ops |-> o, file |-> p]
    /\ fields = FieldsOf(loaded.fields)
    /\ url = loaded.url /\ pathRows = loaded.path
    /\ opRows = OpsOf(loaded.ops)
    /\ body = [path |-> loaded.file, size |-> NoFile]
    /\ reads = ({loaded.file} \cup {r.file : r \in Range(fields)}) \ {NoFile}
    /\ marked = FALSE /\ fileDialog = NoFile

\* What the editor was filled with is of no account once the tab is marked.
Marked(changed) ==
    /\ marked' = (marked \/ changed)
    /\ loaded' = IF changed THEN NoFile ELSE loaded
    /\ UNCHANGED part

Changed == Marked(TRUE)

(***************************************************************************)
(* Edits of the form-data table                                            *)
(***************************************************************************)
FieldsOnly == UNCHANGED <<url, pathRows, opRows, body, fileDialog, reads>>

TypeField(i, key, text) ==
    /\ part = "fields" /\ i \in DOMAIN fields
    /\ fields[i].kind = "Text" \/ text = fields[i].text
    /\ <<key, text>> # <<fields[i].key, fields[i].text>>
    /\ fields' = FieldsClosed([fields EXCEPT ![i].key = key, ![i].text = text])
    /\ Len(fields') <= MaxRows /\ Changed /\ FieldsOnly

ToggleField(i) ==
    /\ part = "fields" /\ i \in DOMAIN fields
    /\ fields' = [fields EXCEPT ![i].on = ~@]
    /\ Len(fields') <= MaxRows /\ Changed /\ FieldsOnly

RemoveField(i) ==
    /\ part = "fields" /\ i \in DOMAIN fields
    /\ fields' = FieldsClosed(RemoveAt(fields, i))
    /\ Len(fields') <= MaxRows /\ Changed /\ FieldsOnly

\* set_row_kind: text forgets the file; a file hides the text and keeps it.
SetFieldKind(i, kind) ==
    /\ part = "fields" /\ i \in DOMAIN fields /\ fields[i].kind # kind
    /\ fields' = [fields EXCEPT ![i].kind = kind, ![i].file = IF kind = "Text" THEN NoFile ELSE @,
                                ![i].size = IF kind = "Text" THEN NoFile ELSE @]
    /\ Len(fields') <= MaxRows /\ Changed /\ FieldsOnly

\* choose_row_file opens the dialog of the system; the rows can be edited under it.
ChooseRowFile(i) ==
    /\ part = "fields" /\ fileDialog = NoFile /\ i \in DOMAIN fields /\ fields[i].kind = "File"
    /\ fileDialog' = i
    /\ UNCHANGED <<part, fields, url, pathRows, opRows, body, loaded, marked, reads>>

\* The answer is written to the row with that number, if there is one.
RowFileChosen(p) ==
    /\ part = "fields" /\ fileDialog # NoFile
    /\ fileDialog' = NoFile
    /\ IF fileDialog \in DOMAIN fields
       THEN /\ Cardinality(reads) < MaxReads
            /\ fields' = FieldsClosed([fields EXCEPT ![fileDialog].kind = "File", ![fileDialog].file = p,
                                                     ![fileDialog].size = NoFile])
            /\ Len(fields') <= MaxRows
            /\ reads' = reads \cup {p}
            /\ Changed
       ELSE UNCHANGED <<part, fields, reads, loaded, marked>>
    /\ UNCHANGED <<url, pathRows, opRows, body>>

DialogDismissed ==
    /\ fileDialog # NoFile
    /\ fileDialog' = NoFile
    /\ UNCHANGED <<part, fields, url, pathRows, opRows, body, loaded, marked, reads>>

\* Variant: the size goes to every row that holds a file.
RowSizeReadForAll(p) ==
    /\ part = "fields" /\ p \in reads
    /\ reads' = reads \ {p}
    /\ fields' = [i \in DOMAIN fields |->
                    IF fields[i].file # NoFile THEN [fields[i] EXCEPT !.size = p] ELSE fields[i]]
    /\ UNCHANGED <<part, url, pathRows, opRows, body, loaded, marked, fileDialog>>

\* refresh_row_file_size: the size goes to the rows that hold that file by now.
RowSizeRead(p) ==
    /\ part = "fields" /\ p \in reads
    /\ reads' = reads \ {p}
    /\ fields' = [i \in DOMAIN fields |->
                    IF fields[i].file = p THEN [fields[i] EXCEPT !.size = p] ELSE fields[i]]
    /\ UNCHANGED <<part, url, pathRows, opRows, body, loaded, marked, fileDialog>>

(***************************************************************************)
(* Edits of the operations: a change that leaves the operations as they    *)
(* are does not mark the tab                                               *)
(***************************************************************************)
\* Variant: only a row that held an operation before counts.
OpsChangedIfHeld(i, next) ==
    /\ part = "ops" /\ i \in DOMAIN opRows /\ Len(opRows') <= MaxRows
    /\ Marked(~OpIsEmpty(opRows[i]))
    /\ UNCHANGED <<fields, url, pathRows, body, fileDialog, reads>>

OpsChanged(i, next) ==
    /\ part = "ops" /\ i \in DOMAIN opRows /\ Len(opRows') <= MaxRows
    /\ Marked(~OpIsEmpty(opRows[i]) \/ ~OpIsEmpty(next))
    /\ UNCHANGED <<fields, url, pathRows, body, fileDialog, reads>>

TypeOp(i, a, b) ==
    LET next == [opRows[i] EXCEPT !.a = a, !.b = b] IN
    /\ part = "ops" /\ i \in DOMAIN opRows
    /\ opRows[i].named \/ a = opRows[i].a
    /\ ~(opRows[i].assert /\ opRows[i].test = "Exists") \/ b = opRows[i].b
    /\ <<a, b>> # <<opRows[i].a, opRows[i].b>>
    /\ opRows' = OpsClosed([opRows EXCEPT ![i] = next])
    /\ OpsChanged(i, next)

\* Variant: no row is added below text that counts again.
ChooseOpOnly(i, assert, named, test) ==
    LET next == [opRows[i] EXCEPT !.assert = assert, !.named = named, !.test = test] IN
    /\ part = "ops" /\ i \in DOMAIN opRows /\ next # opRows[i]
    /\ opRows' = [opRows EXCEPT ![i] = next]
    /\ OpsChanged(i, next)

\* The drop-downs of the kind and of the test: text that was hidden may count again.
ChooseOp(i, assert, named, test) ==
    LET next == [opRows[i] EXCEPT !.assert = assert, !.named = named, !.test = test] IN
    /\ part = "ops" /\ i \in DOMAIN opRows /\ next # opRows[i]
    /\ opRows' = OpsClosed([opRows EXCEPT ![i] = next])
    /\ OpsChanged(i, next)

ToggleOp(i) ==
    /\ part = "ops" /\ i \in DOMAIN opRows
    /\ opRows' = [opRows EXCEPT ![i].on = ~@]
    /\ OpsChanged(i, opRows[i])

RemoveOp(i) ==
    /\ part = "ops" /\ i \in DOMAIN opRows
    /\ opRows' = OpsClosed(RemoveAt(opRows, i))
    /\ OpsChanged(i, opRows[i])

\* refresh_locale: the table is built anew from its operations.
RefreshLocale ==
    /\ part = "ops"
    /\ opRows' = OpsOf(PostOps(opRows))
    /\ UNCHANGED <<part, fields, url, pathRows, body, loaded, marked, fileDialog, reads>>

(***************************************************************************)
(* The URL and the path parameters                                         *)
(***************************************************************************)
\* on_url_event
TypeUrl(names) ==
    /\ part = "path" /\ names # url
    /\ url' = names
    /\ pathRows' = Synced(pathRows, names)
    /\ Changed /\ UNCHANGED <<fields, opRows, body, fileDialog, reads>>

TypePath(i, value) ==
    /\ part = "path" /\ i \in DOMAIN pathRows /\ pathRows[i].value # value
    /\ pathRows' = [pathRows EXCEPT ![i].value = value]
    /\ Changed /\ UNCHANGED <<fields, url, opRows, body, fileDialog, reads>>

(***************************************************************************)
(* The file of a binary body                                               *)
(***************************************************************************)
\* choose_file: the path is written together with the size that was read.
FileChosen(p) ==
    /\ part = "file"
    /\ body' = [path |-> p, size |-> p]
    /\ Changed /\ UNCHANGED <<fields, url, pathRows, opRows, fileDialog, reads>>

ClearFile ==
    /\ part = "file"
    /\ body' = [path |-> NoFile, size |-> NoFile]
    /\ Changed /\ UNCHANGED <<fields, url, pathRows, opRows, fileDialog, reads>>

\* refresh_file_size: the size of the file that was loaded, whatever is chosen by now.
FileSizeRead(p) ==
    /\ part = "file" /\ p \in reads
    /\ reads' = reads \ {p}
    /\ body' = [body EXCEPT !.size = p]
    /\ UNCHANGED <<part, fields, url, pathRows, opRows, loaded, marked, fileDialog>>

\* A save: what the editor holds is the request by now (mark_clean).
Save ==
    /\ loaded' = EditorDraft
    /\ marked' = FALSE
    /\ UNCHANGED <<part, fields, url, pathRows, opRows, body, fileDialog, reads>>

\* What a row of the form-data table offers (kv_table.rs render_row).
FieldRowEdits(i) ==
    \/ \E key, text \in Inputs : TypeField(i, key, text)
    \/ ToggleField(i) \/ RemoveField(i) \/ ChooseRowFile(i)
    \/ \E kind \in {"Text", "File"} : SetFieldKind(i, kind)

\* What a row of operations offers (ops_table.rs render_row).
OpRowEdits(i) ==
    \/ \E a, b \in Inputs : TypeOp(i, a, b)
    \/ \E assert, named \in BOOLEAN, test \in {"Equals", "Exists"} : ChooseOp(i, assert, named, test)
    \/ ToggleOp(i) \/ RemoveOp(i)

\* What the background and the dialog of the system bring.
Answers(p) == RowFileChosen(p) \/ RowSizeRead(p) \/ FileChosen(p) \/ FileSizeRead(p)

EditorNext ==
    \/ \E i \in DOMAIN fields : FieldRowEdits(i)
    \/ \E i \in DOMAIN opRows : OpRowEdits(i)
    \/ \E p \in Files : Answers(p)
    \/ DialogDismissed \/ RefreshLocale \/ ClearFile \/ Save
    \/ \E names \in Urls : TypeUrl(names)
    \/ \E i \in DOMAIN pathRows, value \in Inputs : TypePath(i, value)

EditorSpec == EditorInit /\ [][EditorNext]_editorVars

-----------------------------------------------------------------------------
(***************************************************************************)
(* Properties                                                              *)
(***************************************************************************)
\* The widgets have their types, an open dialog belongs to a row that was there,
\* and the size of no more files is read than there may be.
EditorTypeOK ==
    /\ fields \in Seq(FieldRows) /\ opRows \in Seq(OpRows)
    /\ url \in Seq(Names) /\ pathRows \in Seq(PathRows)
    /\ body \in [path : Files \cup {NoFile}, size : Files \cup {NoFile}]
    /\ marked \in BOOLEAN /\ (marked => loaded = NoFile)
    /\ fileDialog \in (Nat \ {0}) \cup {NoFile} /\ reads \subseteq Files

\* A tab without the mark holds the request it was filled with or saved as:
\* filling and reading are inverse, and no edit of any widget goes without the
\* mark (request_tab.rs load_draft, draft, mark_dirty; the events of both tables).
CleanMeansSame == ~marked => EditorDraft = loaded

\* The rows of the path parameters are those of the URL, and a parameter that
\* stays in the URL keeps its value while the URL is edited (sync_keys).
PathRowsFollowUrl ==
    [][/\ Len(pathRows') = Len(url')
       /\ \A i \in DOMAIN url' : pathRows'[i].name = url'[i]
       /\ url' # url => \A i \in DOMAIN url, j \in DOMAIN url' :
                          url[i] = url'[j] => pathRows'[j].value = pathRows[i].value]_editorVars

\* The table of operations ends with a row to type into, whichever rows were
\* removed and whichever hidden text a drop-down brought back (ops_table.rs
\* after_row_select_change).
OpsEndEmpty == opRows # <<>> /\ OpIsEmpty(Last(opRows))

\* The size a row shows is that of its file, however late it was read and
\* whatever was chosen since (kv_table.rs refresh_row_file_size).
RowSizeBelongs == \A i \in DOMAIN fields : fields[i].size \in {NoFile, fields[i].file}

\* Rows stay whole while they are edited, removed and hidden by drop-downs and
\* while answers of the file system come in late: there is a row of operations to
\* type into, and no row shows the size of a file that is not its own.
RowsAreWhole == EditorTypeOK /\ OpsEndEmpty /\ RowSizeBelongs

\* kv_table.rs, line 1: the last row is always an empty one to add with.
FieldsEndEmpty == fields # <<>> /\ FieldIsEmpty(Last(fields))

\* request_tab.rs: "the path and the size of the chosen file".
FileSizeBelongs == body.size \in {NoFile, body.path}
=============================================================================
