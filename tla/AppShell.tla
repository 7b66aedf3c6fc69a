------------------------------ MODULE AppShell ------------------------------
(***************************************************************************)
(* The application shell around one document at a time (opdf-app/src/      *)
(* app.rs): opening, closing, saving, compacting, the undo history and the *)
(* two questions it asks before something is lost, against the files on    *)
(* disk and writes that may fail.                                          *)
(*                                                                         *)
(* What a document or a file holds is a number, its contents: an edit      *)
(* makes new contents, undo and redo bring back earlier ones. EditHistory  *)
(* says what contents are. Dialogs and writes have every outcome the code  *)
(* handles: cancelled, failed before the file is touched, failed with the  *)
(* file left damaged, failed after it was written.                         *)
(*                                                                         *)
(* While a question is on the screen egui's Modal takes the input of the   *)
(* panels behind it, so no menu action happens until it is answered.       *)
(***************************************************************************)
EXTENDS Integers, Sequences, SequencesExt

CONSTANTS
  Path,         \* the files a user may name
  None,         \* no document, no path, no question
  Absent,       \* the state of a file that does not exist
  Unreadable,   \* the state of a file no parser accepts
  MaxContents,  \* bound: different contents that ever exist
  MaxRevision   \* bound: mutations of one document

ASSUME AppShellAssumption == MaxContents \in Nat /\ MaxRevision \in Nat

VARIABLES
  document,           \* the open document, if any
  service,            \* the file its render service reads, and what that held
  path,               \* OpdfApp::document_path
  saved_revision,     \* the revision last known to be on disk
  undo, redo,         \* the contents the undo stack can bring back
  exit_pending,       \* the exit that waits for the user's answer
  compaction_pending, \* whether a compacting save waits for it
  closed,             \* whether the window was told to close
  files,              \* what each file on disk holds
  used                \* how many contents have existed so far

history == <<undo, redo>>
questions == <<exit_pending, compaction_pending>>
vars == <<document, service, path, saved_revision, history, questions, closed, files, used>>

-----------------------------------------------------------------------------
Contents == 0..MaxContents

\* A document that was generated rather than parsed is `synthetic`: saving it
\* writes a marker no parser accepts.
DocumentState == [contents : Contents, revision : 0..MaxRevision, synthetic : BOOLEAN]

ASSUME NoneIsNoDocument == None \notin DocumentState

FileState == Contents \cup {Absent, Unreadable}
ExitIntent == {"Close", "Quit", "Open"}

Open == document # None

Parsed(contents) == [contents |-> contents, revision |-> 0, synthetic |-> FALSE]
Generated(contents) == [contents |-> contents, revision |-> 0, synthetic |-> TRUE]

\* OpdfApp::has_unsaved_changes
HasUnsavedChanges == Open /\ saved_revision # document.revision

\* The menus answer only while the window is there and asks nothing.
Listening == ~closed /\ exit_pending = None /\ ~compaction_pending

\* A question is on the screen.
AsksToLeave == ~closed /\ exit_pending # None
AsksToCompact == ~closed /\ compaction_pending

-----------------------------------------------------------------------------
\* Installing a document

\* The opener reads the file a second time, for the render service; a document
\* that comes from no file, and no document, have an in-memory service.
ServiceFor(d, from) ==
  IF from = None THEN None ELSE [path |-> from, contents |-> d.contents]

\* Faulty variant: the history of the last document stays.
InstallKeepsHistory(d, from) ==
  /\ document' = d
  /\ service' = ServiceFor(d, from)
  /\ path' = from
  /\ saved_revision' = IF d = None THEN None ELSE d.revision
  /\ UNCHANGED history

\* OpdfApp::install_document
InstallDocument(d, from) ==
  /\ document' = d
  /\ service' = ServiceFor(d, from)
  /\ path' = from
  /\ undo' = <<>>
  /\ redo' = <<>>
  /\ saved_revision' = IF d = None THEN None ELSE d.revision

\* OpdfApp::new: the program starts on the file it was given or on a generated
\* document.
Init ==
  /\ \E p \in Path :
       /\ files = [q \in Path |-> IF q = p THEN 0 ELSE Absent]
       /\ \/ document = Parsed(0) /\ path = p
          \/ document = Generated(0) /\ path = None
  /\ service = ServiceFor(document, path)
  /\ saved_revision = 0
  /\ undo = <<>>
  /\ redo = <<>>
  /\ exit_pending = None
  /\ compaction_pending = FALSE
  /\ closed = FALSE
  /\ used = 0

\* OpdfApp::load_synthetic: a generated document comes from no file.
GenerateSynthetic ==
  /\ Listening
  /\ used < MaxContents
  /\ used' = used + 1
  /\ InstallDocument(Generated(used'), None)
  /\ UNCHANGED <<questions, closed, files>>

-----------------------------------------------------------------------------
\* Editing

\* A step from the open document to another contents of it.
Becomes(contents) ==
  /\ Listening
  /\ Open
  /\ document.revision < MaxRevision
  /\ document' = [document EXCEPT !.contents = contents, !.revision = @ + 1]
  /\ UNCHANGED <<service, path, saved_revision, questions, closed, files>>

\* OpdfApp::apply_command of a command that changes the document.
Edit ==
  /\ used < MaxContents
  /\ used' = used + 1
  /\ Becomes(used')
  /\ undo' = Append(undo, document.contents)
  /\ redo' = <<>>

\* OpdfApp::undo_edit
Undo ==
  /\ undo # <<>>
  /\ Becomes(Last(undo))
  /\ undo' = Front(undo)
  /\ redo' = Append(redo, document.contents)
  /\ UNCHANGED used

\* OpdfApp::redo_edit
Redo ==
  /\ redo # <<>>
  /\ Becomes(Last(redo))
  /\ redo' = Front(redo)
  /\ undo' = Append(undo, document.contents)
  /\ UNCHANGED used

-----------------------------------------------------------------------------
\* Saving

\* What a successful write of the document leaves in a file.
OnDisk == IF document.synthetic THEN Unreadable ELSE document.contents

\* OpdfApp::save_to, when the write succeeds.
Written(p) ==
  /\ files' = [files EXCEPT ![p] = OnDisk]
  /\ path' = p
  /\ saved_revision' = document.revision

\* A failed write that is recorded as if it had succeeded.
NotWrittenButRecorded(p) ==
  /\ \E left \in {files[p], Unreadable, OnDisk} : files' = [files EXCEPT ![p] = left]
  /\ saved_revision' = document.revision
  /\ UNCHANGED path

\* OpdfApp::save_to, when it fails: before the file is touched, while it is
\* written, or after that.
NotWritten(p) ==
  /\ \E left \in {files[p], Unreadable, OnDisk} : files' = [files EXCEPT ![p] = left]
  /\ UNCHANGED <<path, saved_revision>>

\* The files a save may go to: the document's own, or the one the user names.
Home == IF path = None THEN Path ELSE {path}

\* OpdfApp::save_in_place. Only a document without a home asks for a file, and
\* that dialog may be cancelled.
SaveInPlace ==
  \/ \E p \in Home : Written(p) \/ NotWritten(p)
  \/ path = None /\ UNCHANGED <<files, path, saved_revision>>

Save ==
  /\ Listening
  /\ Open
  /\ SaveInPlace
  /\ UNCHANGED <<document, service, history, questions, closed, used>>

\* OpdfApp::save_to_chosen_path
SaveAs ==
  /\ Listening
  /\ Open
  /\ \E p \in Path : Written(p) \/ NotWritten(p)
  /\ UNCHANGED <<document, service, history, questions, closed, used>>

\* OpdfApp::ask_to_compact
AskToCompact ==
  /\ Listening
  /\ Open
  /\ compaction_pending' = TRUE
  /\ UNCHANGED <<document, service, path, saved_revision, history, exit_pending, closed, files, used>>

\* OpdfApp::confirm_compaction
ConfirmCompaction ==
  /\ AsksToCompact
  /\ compaction_pending' = FALSE
  /\ \/ \E p \in Home : Written(p) /\ undo' = <<>> /\ redo' = <<>>
     \/ \E p \in Home : NotWritten(p) /\ UNCHANGED history
     \/ path = None /\ UNCHANGED <<files, path, saved_revision, history>>
  /\ UNCHANGED <<document, service, exit_pending, closed, used>>

\* OpdfApp::cancel_compaction
CancelCompaction ==
  /\ AsksToCompact
  /\ compaction_pending' = FALSE
  /\ UNCHANGED <<document, service, path, saved_revision, history, exit_pending, closed, files, used>>

-----------------------------------------------------------------------------
\* Leaving a document

\* The document stays, at home in `home` and saved up to `revision`.
Stays(home, revision) ==
  /\ path' = home
  /\ saved_revision' = revision
  /\ UNCHANGED <<document, service, history>>

\* OpdfApp::open_chosen_path: the dialog may be cancelled, and a file that
\* cannot be read leaves the document as it is.
OpenChosenPath(home, revision) ==
  \/ \E p \in Path : files'[p] \in Contents /\ InstallDocument(Parsed(files'[p]), p)
  \/ Stays(home, revision)

\* What each exit does once nothing holds it back.
GoAhead(intent, home, revision) ==
  \/ /\ intent = "Close"
     /\ InstallDocument(None, None)
     /\ UNCHANGED closed
  \/ /\ intent = "Open"
     /\ OpenChosenPath(home, revision)
     /\ UNCHANGED closed
  \/ /\ intent = "Quit"
     /\ closed' = TRUE
     /\ Stays(home, revision)

\* OpdfApp::may_abandon_document and what the menu does with its answer.
RequestExit(intent) ==
  /\ Listening
  /\ UNCHANGED <<compaction_pending, files, used>>
  /\ IF HasUnsavedChanges
     THEN /\ exit_pending' = intent
          /\ Stays(path, saved_revision)
          /\ UNCHANGED closed
     ELSE /\ GoAhead(intent, path, saved_revision)
          /\ UNCHANGED exit_pending

\* OpdfApp::confirm_discard
ConfirmDiscard ==
  /\ AsksToLeave
  /\ exit_pending' = None
  /\ UNCHANGED <<compaction_pending, files, used>>
  /\ GoAhead(exit_pending, path, saved_revision)

\* OpdfApp::cancel_discard
CancelDiscard ==
  /\ AsksToLeave
  /\ exit_pending' = None
  /\ UNCHANGED <<document, service, path, saved_revision, history, compaction_pending, closed, files, used>>

\* Faulty variant: the exit goes ahead whatever became of the save.
SaveFirstRegardless ==
  /\ AsksToLeave
  /\ exit_pending' = None
  /\ UNCHANGED <<compaction_pending, used>>
  /\ \E p \in Home, left \in {OnDisk, Unreadable} :
       /\ files' = [files EXCEPT ![p] = left]
       /\ GoAhead(exit_pending, p, document.revision)

\* "Save" in the same question: the exit goes ahead in the same frame if nothing
\* unsaved is left, and is called off otherwise.
SaveFirst ==
  /\ AsksToLeave
  /\ exit_pending' = None
  /\ UNCHANGED <<compaction_pending, used>>
  /\ \/ \E p \in Home :
          /\ files' = [files EXCEPT ![p] = OnDisk]
          /\ GoAhead(exit_pending, p, document.revision)
     \/ /\ \/ \E p \in Home : NotWritten(p)
           \/ path = None /\ UNCHANGED <<files, path, saved_revision>>
        /\ UNCHANGED <<document, service, history, closed>>

\* The window's own close button: OpdfApp::update answers no close request, so
\* the framework closes the window.
CloseWindow ==
  /\ ~closed
  /\ closed' = TRUE
  /\ UNCHANGED <<document, service, path, saved_revision, history, questions, files, used>>

-----------------------------------------------------------------------------
Next ==
  \/ GenerateSynthetic
  \/ Edit
  \/ Undo
  \/ Redo
  \/ Save
  \/ SaveAs
  \/ AskToCompact
  \/ ConfirmCompaction
  \/ CancelCompaction
  \/ \E intent \in ExitIntent : RequestExit(intent)
  \/ ConfirmDiscard
  \/ CancelDiscard
  \/ SaveFirst
  \/ CloseWindow

Spec == Init /\ [][Next]_vars

-----------------------------------------------------------------------------
\* Properties

\* Types of the shell's variables; a document and what is known to be saved of it
\* come and go together.
TypeOK ==
  /\ document \in DocumentState \cup {None}
  /\ service \in [path : Path, contents : Contents] \cup {None}
  /\ path \in Path \cup {None}
  /\ saved_revision \in IF Open THEN 0..MaxRevision ELSE {None}
  /\ undo \in Seq(Contents)
  /\ redo \in Seq(Contents)
  /\ exit_pending \in ExitIntent \cup {None}
  /\ compaction_pending \in BOOLEAN
  /\ closed \in BOOLEAN
  /\ files \in [Path -> FileState]
  /\ used \in Contents

\* has_unsaved_changes answers from the revision counter alone. Whenever it says
\* there are none, the document's own file holds the document, unless a failed
\* write damaged it; in particular undo and redo never look saved by accident.
CleanMeansOnDisk ==
  Open /\ ~HasUnsavedChanges /\ path # None
    => files[path] \in {document.contents, Unreadable}

\* A queued entry addresses pages of the document it was recorded against. Every
\* entry of the two stacks was made by a mutation of the open document: there are
\* never more of them than mutations, and none without a document.
HistoryOfThisDocument ==
  Len(undo) + Len(redo) <= IF Open THEN document.revision ELSE 0

\* The modal questions stay true while they are on the screen: the exit is held
\* back for edits that are still unsaved, and there is a document to compact.
QuestionsApply ==
  /\ exit_pending # None => HasUnsavedChanges
  /\ compaction_pending => Open

\* What the shell keeps about its document fits that document: the history is
\* its own, and the questions on the screen still apply.
ShellCoherent == TypeOK /\ HistoryOfThisDocument /\ QuestionsApply

\* A step that parts with the open document, for another one or none.
GivesUp ==
  /\ Open
  /\ \/ document' = None
     \/ document'.revision < document.revision
     \/ closed' # closed

HeldByAFile(contents) == \E p \in Path : files'[p] = contents

\* Unsaved work is parted with only if a file holds it afterwards or by one of
\* three choices: "Discard changes", generating a document, the window's button.
\* No cancelled dialog and no failed write on the way out loses it.
WorkLostOnlyByChoice ==
  [][HasUnsavedChanges /\ ~document.synthetic /\ GivesUp
       => \/ HeldByAFile(document.contents)
          \/ ConfirmDiscard
          \/ GenerateSynthetic
          \/ CloseWindow]_vars
=============================================================================
