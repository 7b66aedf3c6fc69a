------------------------------ MODULE AppProofs ------------------------------
(***************************************************************************)
(* The application shell and what it shows of its document.                *)
(*                                                                         *)
(* What the shell keeps about its document stays true of it, and unsaved   *)
(* work is parted with only by choice, for any number of files, contents   *)
(* and revisions (ShellInvariant).                                         *)
(*                                                                         *)
(* The view, for any documents, window sizes, ladders and limits: the      *)
(* binary searches of the layout find what touches the viewport            *)
(* (SearchShows), so every page sequence has a current page                *)
(* (CurrentIsAPage); each method of ViewerState leaves a view whose        *)
(* current page, jump and fit hold together (SoundView), and so does each  *)
(* step of a frame (ViewInvariant).                                        *)
(***************************************************************************)
EXTENDS AppShell, ViewState, PageMapProofs, FiniteSetTheorems

\* What is known to be saved of a document was once its revision: an edit, an
\* undo or a redo, which count revisions up, cannot make it look saved.
SavedNotAhead == Open => saved_revision <= document.revision

\* What the shell keeps about its document, without the questions.
Kept ==
  /\ document \in DocumentState \cup {None}
  /\ service \in [path : Path, contents : Contents] \cup {None}
  /\ path \in Path \cup {None}
  /\ saved_revision \in IF Open THEN 0..MaxRevision ELSE {None}
  /\ undo \in Seq(Contents)
  /\ redo \in Seq(Contents)
  /\ HistoryOfThisDocument
  /\ SavedNotAhead

Asked ==
  /\ exit_pending \in ExitIntent \cup {None}
  /\ compaction_pending \in BOOLEAN
  /\ closed \in BOOLEAN
  /\ QuestionsApply
  /\ exit_pending = None \/ ~compaction_pending

Stored ==
  /\ files \in [Path -> FileState]
  /\ used \in Contents
  /\ CleanMeansOnDisk

ShellInvariant == Kept /\ Asked /\ Stored

LEMMA FreshDocuments ==
  ASSUME NEW c \in Contents
  PROVE  /\ Parsed(c) \in DocumentState /\ Parsed(c).revision = 0 /\ Parsed(c).contents = c
         /\ Generated(c) \in DocumentState /\ Generated(c).revision = 0
         /\ Generated(c).contents = c
BY AppShellAssumption DEF Parsed, Generated, DocumentState

LEMMA ShellInitially == Init => ShellInvariant
<1> SUFFICES ASSUME Init PROVE ShellInvariant
  OBVIOUS
<1>1. 0 \in Contents /\ 0 \in 0..MaxRevision /\ <<>> \in Seq(Contents) /\ Len(<<>>) = 0
  BY AppShellAssumption, EmptySeq DEF Contents
<1>2. document \in DocumentState /\ document.contents = 0 /\ document.revision = 0
  BY <1>1, FreshDocuments DEF Init
<1> document # None
  BY <1>2, NoneIsNoDocument
<1>3. Kept
  BY <1>1, <1>2
  DEF Init, Kept, ServiceFor, Open, HistoryOfThisDocument, SavedNotAhead
<1>4. Asked
  BY <1>2 DEF Init, Asked, QuestionsApply, Open
<1>5. Stored
  BY <1>1, <1>2
  DEF Init, Stored, FileState, CleanMeansOnDisk, HasUnsavedChanges, Open
<1>6. QED BY <1>3, <1>4, <1>5 DEF ShellInvariant

-----------------------------------------------------------------------------
\* Installing a document

\* A document just installed is at its first revision, saved, and without a
\* history; no document is neither saved nor has one.
LEMMA InstalledIsKept ==
  ASSUME NEW d, d = None \/ (d \in DocumentState /\ d.revision = 0),
         NEW from \in Path \cup {None}, d = None => from = None,
         InstallDocument(d, from)
  PROVE  Kept' /\ ~HasUnsavedChanges'
<1>1. <<>> \in Seq(Contents) /\ Len(<<>>) = 0
  BY EmptySeq
<1>2. service' \in [path : Path, contents : Contents] \cup {None}
  BY NoneIsNoDocument DEF InstallDocument, ServiceFor, DocumentState
<1>3. QED
  BY <1>1, <1>2, NoneIsNoDocument, AppShellAssumption
  DEF InstallDocument, Kept, Open, DocumentState, HistoryOfThisDocument, SavedNotAhead,
      HasUnsavedChanges

-----------------------------------------------------------------------------
\* Editing

LEMMA EditStep ==
  ASSUME ShellInvariant, NEW c \in Contents, Becomes(c),
         undo' \in Seq(Contents), redo' \in Seq(Contents),
         Len(undo') + Len(redo') <= Len(undo) + Len(redo) + 1,
         used' \in Contents
  PROVE  ShellInvariant'
<1>1. Kept /\ Asked /\ Stored
  BY DEF ShellInvariant
<1>2. /\ document \in DocumentState /\ document # None
      /\ document.revision \in 0..MaxRevision /\ document.revision < MaxRevision
  BY <1>1 DEF Becomes, Open, Kept, DocumentState
<1>3. /\ document' \in DocumentState /\ document' # None
      /\ document'.revision = document.revision + 1
  <2>1. document' = [document EXCEPT !.contents = c, !.revision = @ + 1]
    BY DEF Becomes
  <2>2. document.revision + 1 \in 0..MaxRevision
    BY <1>2, AppShellAssumption
  <2>3. document' \in DocumentState /\ document'.revision = document.revision + 1
    BY <1>2, <2>1, <2>2 DEF DocumentState
  <2>4. QED BY <2>3, NoneIsNoDocument
<1>4. saved_revision \in 0..MaxRevision /\ saved_revision <= document.revision
  BY <1>1, <1>2 DEF Kept, Open, SavedNotAhead
<1>5. HasUnsavedChanges'
  BY <1>2, <1>3, <1>4 DEF Becomes, HasUnsavedChanges, Open
<1>6. Kept'
  <2>1. HistoryOfThisDocument'
    <3>1. Len(undo) + Len(redo) <= document.revision
      BY <1>1, <1>2 DEF Kept, HistoryOfThisDocument, Open
    <3>2. /\ Len(undo) \in Nat /\ Len(redo) \in Nat
          /\ Len(undo') \in Nat /\ Len(redo') \in Nat
      BY <1>1, LenProperties DEF Kept
    <3>3. QED BY <1>2, <1>3, <3>1, <3>2 DEF HistoryOfThisDocument, Open
  <2>2. SavedNotAhead'
    BY <1>2, <1>3, <1>4 DEF Becomes, SavedNotAhead
  <2>3. QED BY <1>1, <1>3, <1>4, <2>1, <2>2 DEF Becomes, Kept, Open
<1>7. Asked'
  BY <1>1, <1>3, <1>5 DEF Becomes, Asked, QuestionsApply, Open, questions
<1>8. Stored'
  BY <1>1, <1>5 DEF Becomes, Stored, CleanMeansOnDisk
<1>9. QED BY <1>6, <1>7, <1>8 DEF ShellInvariant

\* Undo and redo bring back contents the document had.
LEMMA Recorded ==
  ASSUME NEW entries \in Seq(Contents), entries # <<>>
  PROVE  /\ Last(entries) \in Contents /\ Front(entries) \in Seq(Contents)
         /\ Len(Front(entries)) = Len(entries) - 1 /\ Len(entries) \in Nat
<1>1. Len(entries) \in Nat /\ Len(entries) >= 1
  BY EmptySeq, LenProperties
<1>2. Last(entries) \in Contents
  BY <1>1 DEF Last
<1>3. PICK k \in Int : k = Len(entries) - 1 /\ k >= 0
  BY <1>1
<1>4. \A i \in 1..k : entries[i] \in Contents
  BY <1>3, ElementOfSeq
<1>5. SubSeq(entries, 1, k) \in Seq(Contents) /\ Len(SubSeq(entries, 1, k)) = k
  BY <1>3, <1>4, SubSeqProperties
<1>6. QED BY <1>1, <1>2, <1>3, <1>5 DEF Front

LEMMA EditingSteps ==
  ASSUME ShellInvariant, Edit \/ Undo \/ Redo
  PROVE  ShellInvariant'
<1>1. /\ undo \in Seq(Contents) /\ redo \in Seq(Contents)
      /\ Len(undo) \in Nat /\ Len(redo) \in Nat
      /\ used \in Contents
      /\ <<>> \in Seq(Contents) /\ Len(<<>>) = 0
  BY LenProperties, EmptySeq DEF ShellInvariant, Kept, Stored
<1>2. document.contents \in Contents
  BY DEF Edit, Undo, Redo, Becomes, Open, ShellInvariant, Kept, DocumentState
<1>3. /\ Append(undo, document.contents) \in Seq(Contents)
      /\ Append(redo, document.contents) \in Seq(Contents)
      /\ Len(Append(undo, document.contents)) = Len(undo) + 1
      /\ Len(Append(redo, document.contents)) = Len(redo) + 1
  BY <1>1, <1>2, AppendProperties
<1>4. CASE Edit
  <2>1. used' \in Contents
    BY <1>1, <1>4, AppShellAssumption DEF Edit, Contents
  <2>2. QED BY <1>1, <1>3, <1>4, <2>1, EditStep DEF Edit
<1>5. CASE Undo
  BY <1>1, <1>3, <1>5, Recorded, EditStep DEF Undo
<1>6. CASE Redo
  BY <1>1, <1>3, <1>6, Recorded, EditStep DEF Redo
<1>7. QED BY <1>4, <1>5, <1>6

-----------------------------------------------------------------------------
\* Saving and leaving

\* What a write of the document leaves in a file.
LEMMA DocumentOnDisk ==
  ASSUME document \in DocumentState
  PROVE  OnDisk \in {document.contents, Unreadable} /\ OnDisk \in FileState
BY DEF OnDisk, DocumentState, FileState

\* A write of the open document to one file: it succeeds, fails, or is not made.
LEMMA WriteStep ==
  ASSUME ShellInvariant, Open,
         \/ \E p \in Path : Written(p) \/ NotWritten(p)
         \/ UNCHANGED <<files, path, saved_revision>>
  PROVE  /\ files' \in [Path -> FileState] /\ path' \in Path \cup {None}
         /\ saved_revision' \in 0..MaxRevision /\ saved_revision' <= document.revision
         /\ saved_revision' = document.revision /\ path' # None =>
              files'[path'] \in {document.contents, Unreadable}
<1>1. /\ Kept /\ Stored /\ document \in DocumentState /\ document.revision \in 0..MaxRevision
      /\ saved_revision \in 0..MaxRevision /\ saved_revision <= document.revision
  BY DEF ShellInvariant, Kept, Open, DocumentState, SavedNotAhead
<1>2. saved_revision = document.revision /\ path # None =>
        files[path] \in {document.contents, Unreadable}
  BY <1>1 DEF Stored, CleanMeansOnDisk, HasUnsavedChanges
<1>3. OnDisk \in {document.contents, Unreadable} /\ OnDisk \in FileState
  BY <1>1, DocumentOnDisk
<1>4. /\ files \in [Path -> FileState] /\ path \in Path \cup {None}
      /\ Unreadable \in FileState
  BY <1>1 DEF Stored, Kept, FileState
<1>5. ASSUME NEW p \in Path, Written(p)
      PROVE  /\ files' \in [Path -> FileState] /\ path' = p
             /\ saved_revision' = document.revision /\ files'[p] = OnDisk
  BY <1>3, <1>4, <1>5 DEF Written
<1>6. ASSUME NEW p \in Path, NotWritten(p)
      PROVE  /\ files' \in [Path -> FileState] /\ UNCHANGED <<path, saved_revision>>
             /\ path # None => files'[path] \in {files[path], Unreadable, OnDisk}
  BY <1>3, <1>4, <1>6 DEF NotWritten
<1>7. CASE \E p \in Path : Written(p)
  BY <1>1, <1>3, <1>5, <1>7
<1>8. CASE \E p \in Path : NotWritten(p)
  BY <1>1, <1>2, <1>3, <1>4, <1>6, <1>8
<1>9. CASE UNCHANGED <<files, path, saved_revision>>
  BY <1>1, <1>2, <1>4, <1>9
<1>10. QED BY <1>7, <1>8, <1>9

\* The document stays, and its history stays or is given up.
LEMMA SavingKeeps ==
  ASSUME ShellInvariant, Open,
         \/ \E p \in Path : Written(p) \/ NotWritten(p)
         \/ UNCHANGED <<files, path, saved_revision>>,
         UNCHANGED history \/ (undo' = <<>> /\ redo' = <<>>),
         UNCHANGED <<document, service, used>>
  PROVE  Kept' /\ Stored'
<1>1. Kept /\ Stored /\ document \in DocumentState
  BY DEF ShellInvariant, Kept, Open
<1>2. /\ files' \in [Path -> FileState] /\ path' \in Path \cup {None}
      /\ saved_revision' \in 0..MaxRevision /\ saved_revision' <= document.revision
      /\ saved_revision' = document.revision /\ path' # None =>
           files'[path'] \in {document.contents, Unreadable}
  BY WriteStep
<1>3. /\ undo' \in Seq(Contents) /\ redo' \in Seq(Contents)
      /\ Len(undo') + Len(redo') <= document.revision
  <2>1. <<>> \in Seq(Contents) /\ Len(<<>>) = 0
    BY EmptySeq
  <2>2. 0 <= document.revision
    BY <1>1 DEF DocumentState
  <2>3. CASE undo' = <<>> /\ redo' = <<>>
    <3>1. Len(undo') + Len(redo') = 0
      BY <2>1, <2>3
    <3>2. QED BY <2>1, <2>2, <2>3, <3>1
  <2>4. CASE undo' = undo /\ redo' = redo
    BY <1>1, <2>4 DEF Kept, HistoryOfThisDocument, Open
  <2>5. QED BY <2>3, <2>4 DEF history
<1>4. Kept'
  BY <1>1, <1>2, <1>3 DEF Kept, Open, HistoryOfThisDocument, SavedNotAhead
<1>5. Stored'
  BY <1>1, <1>2 DEF Stored, CleanMeansOnDisk, HasUnsavedChanges, Open
<1>6. QED BY <1>4, <1>5

LEMMA SavingSteps ==
  ASSUME ShellInvariant, Save \/ SaveAs \/ ConfirmCompaction
  PROVE  ShellInvariant'
<1>1. Asked /\ Open /\ Home \subseteq Path
  BY DEF Save, SaveAs, ConfirmCompaction, AsksToCompact, ShellInvariant, Asked,
         QuestionsApply, Kept, Home
<1>2. CASE Save
  <2>1. Kept' /\ Stored'
    BY <1>1, <1>2, SavingKeeps DEF Save, SaveInPlace
  <2>2. Asked'
    BY <1>1, <1>2 DEF Save, Listening, questions, Asked, QuestionsApply, Open
  <2>3. QED BY <2>1, <2>2 DEF ShellInvariant
<1>3. CASE SaveAs
  <2>1. Kept' /\ Stored'
    BY <1>1, <1>3, SavingKeeps DEF SaveAs
  <2>2. Asked'
    BY <1>1, <1>3 DEF SaveAs, Listening, questions, Asked, QuestionsApply, Open
  <2>3. QED BY <2>1, <2>2 DEF ShellInvariant
<1>4. CASE ConfirmCompaction
  <2>1. Kept' /\ Stored'
    BY <1>1, <1>4, SavingKeeps DEF ConfirmCompaction
  <2>2. Asked'
    BY <1>1, <1>4 DEF ConfirmCompaction, AsksToCompact, Asked, QuestionsApply, Open
  <2>3. QED BY <2>1, <2>2 DEF ShellInvariant
<1>5. QED BY <1>2, <1>3, <1>4

\* An exit that goes ahead, for a document whose home is `home` and that is saved
\* up to `revision`.
LEMMA GoingAhead ==
  ASSUME ShellInvariant,
         NEW intent, NEW home \in Path \cup {None},
         NEW revision \in IF Open THEN 0..MaxRevision ELSE {None},
         Open => revision <= document.revision,
         files' \in [Path -> FileState],
         Open /\ revision = document.revision /\ home # None =>
           files'[home] \in {document.contents, Unreadable},
         GoAhead(intent, home, revision),
         exit_pending' = None, ~compaction_pending, UNCHANGED <<compaction_pending, used>>
  PROVE  ShellInvariant'
<1>1. Kept /\ Asked /\ Stored
  BY DEF ShellInvariant
<1>2. CASE InstallDocument(None, None) /\ UNCHANGED closed
  <2>1. Kept'
    BY <1>2, InstalledIsKept
  <2>2. Asked'
    BY <1>1, <1>2 DEF Asked, QuestionsApply
  <2>3. Stored'
    BY <1>1, <1>2 DEF Stored, CleanMeansOnDisk, InstallDocument
  <2>4. QED BY <2>1, <2>2, <2>3 DEF ShellInvariant
<1>3. CASE /\ \E p \in Path : files'[p] \in Contents /\ InstallDocument(Parsed(files'[p]), p)
           /\ UNCHANGED closed
  <2>1. PICK p \in Path : files'[p] \in Contents /\ InstallDocument(Parsed(files'[p]), p)
    BY <1>3
  <2>2. /\ Parsed(files'[p]) \in DocumentState /\ Parsed(files'[p]).revision = 0
        /\ Parsed(files'[p]).contents = files'[p] /\ Parsed(files'[p]) # None
    BY <2>1, FreshDocuments, NoneIsNoDocument
  <2>3. Kept'
    BY <2>1, <2>2, InstalledIsKept
  <2>4. Asked'
    BY <1>1, <1>3 DEF Asked, QuestionsApply
  <2>5. Stored'
    BY <1>1, <2>1, <2>2 DEF Stored, CleanMeansOnDisk, InstallDocument
  <2>6. QED BY <2>3, <2>4, <2>5 DEF ShellInvariant
<1>4. CASE Stays(home, revision) /\ closed' \in BOOLEAN
  <2>1. Kept'
    BY <1>1, <1>4
    DEF Stays, history, Kept, Open, HistoryOfThisDocument, SavedNotAhead
  <2>2. Asked'
    BY <1>1, <1>4 DEF Asked, QuestionsApply
  <2>3. Stored'
    BY <1>1, <1>4 DEF Stays, Stored, CleanMeansOnDisk, HasUnsavedChanges, Open
  <2>4. QED BY <2>1, <2>2, <2>3 DEF ShellInvariant
<1>5. QED BY <1>1, <1>2, <1>3, <1>4 DEF GoAhead, OpenChosenPath, Asked

\* What GoingAhead asks for, of a document that nothing was written of.
LEMMA AsItIs ==
  ASSUME ShellInvariant, files' = files
  PROVE  /\ path \in Path \cup {None}
         /\ saved_revision \in IF Open THEN 0..MaxRevision ELSE {None}
         /\ Open => saved_revision <= document.revision
         /\ files' \in [Path -> FileState]
         /\ Open /\ saved_revision = document.revision /\ path # None =>
              files'[path] \in {document.contents, Unreadable}
BY DEF ShellInvariant, Kept, Stored, SavedNotAhead, CleanMeansOnDisk, HasUnsavedChanges

LEMMA LeavingSteps ==
  ASSUME ShellInvariant,
         (\E intent \in ExitIntent : RequestExit(intent)) \/ ConfirmDiscard \/ SaveFirst
  PROVE  ShellInvariant'
<1>1. Kept /\ Asked /\ Stored
  BY DEF ShellInvariant
<1>2. ASSUME NEW intent \in ExitIntent, RequestExit(intent) PROVE ShellInvariant'
  <2>1. CASE HasUnsavedChanges
    <3>1. UNCHANGED <<document, service, history, path, saved_revision, files, used, closed>>
      BY <1>2, <2>1 DEF RequestExit, Stays
    <3>2. Kept' /\ Stored' /\ HasUnsavedChanges'
      BY <1>1, <2>1, <3>1
      DEF history, Kept, Stored, Open, HistoryOfThisDocument, SavedNotAhead,
          CleanMeansOnDisk, HasUnsavedChanges
    <3>3. Asked'
      BY <1>1, <1>2, <2>1, <3>1, <3>2 DEF RequestExit, Listening, Asked, QuestionsApply
    <3>4. QED BY <3>2, <3>3 DEF ShellInvariant
  <2>2. CASE ~HasUnsavedChanges
    BY <1>2, <2>2, AsItIs, GoingAhead DEF RequestExit, Listening
  <2>3. QED BY <2>1, <2>2
<1>3. CASE ConfirmDiscard
  BY <1>1, <1>3, AsItIs, GoingAhead DEF ConfirmDiscard, AsksToLeave, Asked
<1>4. CASE SaveFirst
  <2>1. /\ Open /\ exit_pending # None /\ ~compaction_pending /\ Home \subseteq Path
        /\ document \in DocumentState /\ document.revision \in 0..MaxRevision
    BY <1>1, <1>4
    DEF SaveFirst, AsksToLeave, Asked, QuestionsApply, HasUnsavedChanges, Open, Kept,
        Home, DocumentState
  <2>2. ASSUME NEW p \in Path, files' = [files EXCEPT ![p] = OnDisk],
               GoAhead(exit_pending, p, document.revision)
        PROVE  ShellInvariant'
    <3>1. files' \in [Path -> FileState] /\ files'[p] \in {document.contents, Unreadable}
      BY <1>1, <2>1, <2>2, DocumentOnDisk DEF Stored
    <3>2. QED BY <1>4, <2>1, <2>2, <3>1, GoingAhead DEF SaveFirst
  <2>3. CASE /\ \/ \E p \in Home : NotWritten(p)
                \/ UNCHANGED <<files, path, saved_revision>>
             /\ UNCHANGED <<document, service, history, closed>>
    <3>1. Kept' /\ Stored'
      BY <1>4, <2>1, <2>3, SavingKeeps DEF SaveFirst
    <3>2. Asked'
      BY <1>1, <1>4, <2>1, <2>3 DEF SaveFirst, Asked, QuestionsApply
    <3>3. QED BY <3>1, <3>2 DEF ShellInvariant
  <2>4. QED BY <1>4, <2>1, <2>2, <2>3 DEF SaveFirst
<1>5. QED BY <1>2, <1>3, <1>4

LEMMA OtherSteps ==
  ASSUME ShellInvariant,
         GenerateSynthetic \/ AskToCompact \/ CancelCompaction \/ CancelDiscard \/ CloseWindow
  PROVE  ShellInvariant'
<1>1. Kept /\ Asked /\ Stored
  BY DEF ShellInvariant
<1>2. CASE GenerateSynthetic
  <2>1. used' \in Contents
    BY <1>1, <1>2, AppShellAssumption DEF GenerateSynthetic, Stored, Contents
  <2>2. Kept'
    BY <1>2, <2>1, FreshDocuments, InstalledIsKept DEF GenerateSynthetic
  <2>3. Asked'
    BY <1>1, <1>2 DEF GenerateSynthetic, Listening, questions, Asked, QuestionsApply
  <2>4. Stored'
    BY <1>1, <1>2, <2>1
    DEF GenerateSynthetic, InstallDocument, Stored, CleanMeansOnDisk
  <2>5. QED BY <2>2, <2>3, <2>4 DEF ShellInvariant
<1>3. CASE AskToCompact \/ CancelCompaction \/ CancelDiscard \/ CloseWindow
  <2>1. UNCHANGED <<document, service, path, saved_revision, undo, redo, files, used>>
    BY <1>3 DEF AskToCompact, CancelCompaction, CancelDiscard, CloseWindow, history
  <2>2. Kept' /\ Stored'
    BY <1>1, <2>1
    DEF Kept, Stored, Open, HistoryOfThisDocument, SavedNotAhead, CleanMeansOnDisk,
        HasUnsavedChanges
  <2>3. Asked'
    <3>1. HasUnsavedChanges' = HasUnsavedChanges /\ Open' = Open
      BY <2>1 DEF HasUnsavedChanges, Open
    <3>2. CASE AskToCompact
      BY <1>1, <3>1, <3>2 DEF AskToCompact, Listening, Asked, QuestionsApply
    <3>3. CASE CancelCompaction
      BY <1>1, <3>1, <3>3 DEF CancelCompaction, Asked, QuestionsApply
    <3>4. CASE CancelDiscard
      BY <1>1, <3>1, <3>4 DEF CancelDiscard, Asked, QuestionsApply
    <3>5. CASE CloseWindow
      BY <1>1, <3>1, <3>5 DEF CloseWindow, questions, Asked, QuestionsApply
    <3>6. QED BY <1>3, <3>2, <3>3, <3>4, <3>5
  <2>4. QED BY <2>2, <2>3 DEF ShellInvariant
<1>4. QED BY <1>2, <1>3

LEMMA ShellInvariantHolds == Spec => []ShellInvariant
<1>1. ShellInvariant /\ [Next]_vars => ShellInvariant'
  <2> SUFFICES ASSUME ShellInvariant, [Next]_vars PROVE ShellInvariant'
    OBVIOUS
  <2>1. CASE UNCHANGED vars
    BY <2>1
    DEF vars, history, questions, ShellInvariant, Kept, Asked, Stored, Open,
        HistoryOfThisDocument, SavedNotAhead, QuestionsApply, CleanMeansOnDisk,
        HasUnsavedChanges
  <2>2. CASE Next
    BY <2>2, EditingSteps, SavingSteps, LeavingSteps, OtherSteps DEF Next
  <2>3. QED BY <2>1, <2>2
<1>2. QED BY <1>1, ShellInitially, PTL DEF Spec

-----------------------------------------------------------------------------
\* The theorems

\* The history is the open document's own, and a question on the screen still
\* applies.
THEOREM ShellStaysCoherent == Spec => []ShellCoherent
<1>1. ShellInvariant => ShellCoherent
  BY DEF ShellInvariant, Kept, Asked, Stored, ShellCoherent, TypeOK
<1>2. QED BY <1>1, ShellInvariantHolds, PTL

\* A document that looks saved is in its file, unless a failed write damaged it.
THEOREM CleanDocumentsAreOnDisk == Spec => []CleanMeansOnDisk
<1>1. ShellInvariant => CleanMeansOnDisk
  BY DEF ShellInvariant, Stored
<1>2. QED BY <1>1, ShellInvariantHolds, PTL

LEMMA LossIsChosen ==
  ASSUME ShellInvariant, Next, HasUnsavedChanges, ~document.synthetic, GivesUp
  PROVE  \/ HeldByAFile(document.contents)
         \/ ConfirmDiscard
         \/ GenerateSynthetic
         \/ CloseWindow
<1>1. /\ document \in DocumentState /\ document # None /\ document.revision \in Nat
      /\ Home \subseteq Path /\ files \in [Path -> FileState]
  <2>1. document \in DocumentState /\ document # None
    BY DEF HasUnsavedChanges, Open, ShellInvariant, Kept
  <2>2. QED
    BY <2>1, AppShellAssumption DEF DocumentState, Home, ShellInvariant, Kept, Stored
<1>2. ~(document' = document /\ closed' = closed)
  BY <1>1 DEF GivesUp
<1>3. CASE Edit \/ Undo \/ Redo
  <2>1. PICK c \in Contents : Becomes(c)
    <3>1. undo \in Seq(Contents) /\ redo \in Seq(Contents) /\ used \in Contents
      BY DEF ShellInvariant, Kept, Stored
    <3>2. CASE Edit
      BY <3>1, <3>2, AppShellAssumption DEF Edit, Contents
    <3>3. CASE Undo \/ Redo
      BY <3>1, <3>3, Recorded DEF Undo, Redo
    <3>4. QED BY <1>3, <3>2, <3>3
  <2>2. /\ document' = [document EXCEPT !.contents = c, !.revision = @ + 1]
        /\ closed' = closed /\ document.revision < MaxRevision
    BY <2>1 DEF Becomes
  <2>3. document'.revision = document.revision + 1
    BY <1>1, <2>2 DEF DocumentState
  <2>4. document' \in DocumentState
    <3>1. document.revision + 1 \in 0..MaxRevision
      BY <1>1, <2>2, AppShellAssumption
    <3>2. QED BY <1>1, <2>2, <3>1 DEF DocumentState
  <2>5. document' # None
    BY <2>4, NoneIsNoDocument
  <2>6. QED BY <1>1, <2>2, <2>3, <2>5 DEF GivesUp
<1>4. CASE Save \/ SaveAs \/ AskToCompact \/ ConfirmCompaction \/ CancelCompaction
             \/ CancelDiscard
  BY <1>2, <1>4
  DEF Save, SaveAs, AskToCompact, ConfirmCompaction, CancelCompaction, CancelDiscard
<1>5. CASE \E intent \in ExitIntent : RequestExit(intent)
  BY <1>2, <1>5 DEF RequestExit, Stays
<1>6. CASE SaveFirst
  <2>1. PICK p \in Home : files' = [files EXCEPT ![p] = OnDisk]
    BY <1>2, <1>6 DEF SaveFirst
  <2>2. files'[p] = document.contents
    BY <1>1, <2>1 DEF OnDisk
  <2>3. QED BY <1>1, <2>2 DEF HeldByAFile
<1>7. QED BY <1>3, <1>4, <1>5, <1>6 DEF Next

\* Unsaved work goes only where a file holds it by then, or by one of the three
\* choices: no cancelled dialog and no failed write loses it.
THEOREM WorkIsLostOnlyByChoice == Spec => WorkLostOnlyByChoice
<1>1. ShellInvariant /\ [Next]_vars =>
        [HasUnsavedChanges /\ ~document.synthetic /\ GivesUp
           => \/ HeldByAFile(document.contents)
              \/ ConfirmDiscard
              \/ GenerateSynthetic
              \/ CloseWindow]_vars
  BY LossIsChosen
<1>2. QED BY <1>1, ShellInvariantHolds, PTL DEF Spec, WorkLostOnlyByChoice

-----------------------------------------------------------------------------
\* The greatest and the least of finitely many

\* Of finitely many things, one has the greatest number.
LEMMA GreatestOf ==
  ASSUME NEW S, IsFiniteSet(S), S # {}, NEW f \in [S -> Int]
  PROVE  \E x \in S : \A y \in S : f[y] <= f[x]
<1> DEFINE Has(A) == A = {} \/ \E x \in A : \A y \in A : f[y] <= f[x]
           T == {n \in Nat : \A A \in SUBSET S : Cardinality(A) = n => Has(A)}
<1>1. \A A \in SUBSET S : IsFiniteSet(A) /\ Cardinality(A) \in Nat
  BY FS_Subset, FS_CardinalityType
<1>2. 0 \in T
  <2>1. \A A \in SUBSET S : Cardinality(A) = 0 => A = {}
    BY <1>1, FS_EmptySet
  <2>2. QED BY <2>1
<1>3. ASSUME NEW n \in Nat, n \in T PROVE n + 1 \in T
  <2>1. ASSUME NEW A \in SUBSET S, Cardinality(A) = n + 1, A # {} PROVE Has(A)
    <3>1. PICK a \in A : TRUE
      BY <2>1
    <3>2. A \ {a} \in SUBSET S /\ Cardinality(A \ {a}) = n
      <4>1. IsFiniteSet(A)
        BY <1>1
      <4>2. Cardinality(A \ {a}) = IF a \in A THEN Cardinality(A) - 1 ELSE Cardinality(A)
        BY <4>1, FS_RemoveElement
      <4>3. QED BY <2>1, <3>1, <4>2
    <3>3. Has(A \ {a})
      BY <1>3, <3>2
    <3>4. CASE A \ {a} = {}
      <4>1. \A y \in A : y = a
        BY <3>4
      <4>2. f[a] \in Int
        BY <3>1
      <4>3. QED BY <3>1, <4>1, <4>2
    <3>5. CASE A \ {a} # {}
      <4>1. PICK x \in A \ {a} : \A y \in A \ {a} : f[y] <= f[x]
        BY <3>3, <3>5
      <4>2. \A y \in A : f[y] \in Int
        OBVIOUS
      <4>3. CASE f[a] <= f[x]
        <5>1. \A y \in A : f[y] <= f[x]
          BY <4>1, <4>3
        <5>2. QED BY <5>1
      <4>4. CASE ~(f[a] <= f[x])
        <5>1. \A y \in A : f[y] <= f[a]
          BY <4>1, <4>2, <4>4
        <5>2. QED BY <3>1, <5>1
      <4>5. QED BY <4>3, <4>4
    <3>6. QED BY <3>4, <3>5
  <2>2. QED BY <2>1
<1> HIDE DEF T
<1>4. Cardinality(S) \in T
  BY <1>1, <1>2, <1>3, EveryNumber
<1>5. QED BY <1>4 DEF T

LEMMA Extremes ==
  ASSUME NEW S \in SUBSET Int, IsFiniteSet(S), S # {}
  PROVE  /\ Max(S) \in S /\ \A y \in S : y <= Max(S)
         /\ Min(S) \in S /\ \A y \in S : Min(S) <= y
<1>1. \E x \in S : \A y \in S : x >= y
  <2> DEFINE f == [x \in S |-> x]
  <2>1. f \in [S -> Int] /\ \A x \in S : f[x] = x
    OBVIOUS
  <2> HIDE DEF f
  <2>2. PICK x \in S : \A y \in S : f[y] <= f[x]
    BY <2>1, GreatestOf
  <2>3. QED BY <2>1, <2>2
<1>2. \E x \in S : \A y \in S : x <= y
  <2> DEFINE f == [x \in S |-> 0 - x]
  <2>1. f \in [S -> Int] /\ \A x \in S : f[x] = 0 - x
    OBVIOUS
  <2> HIDE DEF f
  <2>2. PICK x \in S : \A y \in S : f[y] <= f[x]
    BY <2>1, GreatestOf
  <2>3. ASSUME NEW y \in S PROVE x <= y
    <3>1. f[y] <= f[x] /\ f[y] = 0 - y /\ f[x] = 0 - x
      BY <2>1, <2>2
    <3>2. x \in Int /\ y \in Int
      OBVIOUS
    <3>3. QED BY <3>1, <3>2
  <2>4. QED BY <2>3
<1>3. Max(S) \in S /\ \A y \in S : Max(S) >= y
  BY <1>1 DEF Max
<1>4. Min(S) \in S /\ \A y \in S : Min(S) <= y
  BY <1>2 DEF Min
<1>5. QED BY <1>3, <1>4

\* The greater and the lesser of two.
LEMMA OfTwo ==
  ASSUME NEW a \in Int, NEW b \in Int
  PROVE  /\ Max({a, b}) = IF a >= b THEN a ELSE b
         /\ Min({a, b}) = IF a <= b THEN a ELSE b
<1> DEFINE x == IF a >= b THEN a ELSE b
           y == IF a <= b THEN a ELSE b
<1>1. x \in {a, b} /\ \A z \in {a, b} : x >= z
  OBVIOUS
<1>2. y \in {a, b} /\ \A z \in {a, b} : y <= z
  OBVIOUS
<1>3. \A m \in {a, b} : (\A z \in {a, b} : m >= z) => m = x
  OBVIOUS
<1>4. \A m \in {a, b} : (\A z \in {a, b} : m <= z) => m = y
  OBVIOUS
<1> HIDE DEF x, y
<1>5. Max({a, b}) = x
  BY <1>1, <1>3 DEF Max
<1>6. Min({a, b}) = y
  BY <1>2, <1>4 DEF Min
<1>7. QED BY <1>5, <1>6 DEF x, y

-----------------------------------------------------------------------------
\* Zoom

ZoomRange == Min(ZoomSteps)..Max(ZoomSteps)

LEMMA ZoomsAreNumbers ==
  /\ ZoomSteps \in SUBSET Int /\ IsFiniteSet(ZoomSteps) /\ ZoomSteps # {}
  /\ Min(ZoomSteps) \in Nat \ {0} /\ Max(ZoomSteps) \in Nat \ {0}
  /\ Min(ZoomSteps) <= Max(ZoomSteps)
  /\ ZoomRange \in SUBSET (Nat \ {0})
  /\ Unit \in ZoomRange
<1>1. /\ ZoomSteps \in SUBSET Int /\ IsFiniteSet(ZoomSteps) /\ ZoomSteps # {}
      /\ ZoomSteps \in SUBSET (Nat \ {0}) /\ Unit \in ZoomSteps
  BY PageLayoutAssumption
<1>2. /\ Max(ZoomSteps) \in ZoomSteps /\ \A y \in ZoomSteps : y <= Max(ZoomSteps)
      /\ Min(ZoomSteps) \in ZoomSteps /\ \A y \in ZoomSteps : Min(ZoomSteps) <= y
  BY <1>1, Extremes
<1> DEFINE low == Min(ZoomSteps)
           high == Max(ZoomSteps)
<1>3. low \in Nat \ {0} /\ high \in Nat \ {0} /\ low <= Unit /\ Unit <= high /\ Unit \in Nat
  BY <1>1, <1>2
<1>4. ZoomRange = low..high
  BY DEF ZoomRange
<1> HIDE DEF low, high
<1>5. low..high \in SUBSET (Nat \ {0}) /\ Unit \in low..high /\ low <= high
  BY <1>3
<1>6. QED BY <1>1, <1>3, <1>4, <1>5 DEF low, high

LEMMA ClampedFits ==
  ASSUME NEW z \in Int
  PROVE  Clamped(z) \in ZoomRange /\ (z \in ZoomRange => Clamped(z) = z)
<1>1. PICK low \in Nat, high \in Nat :
        /\ low = Min(ZoomSteps) /\ high = Max(ZoomSteps) /\ low <= high
        /\ ZoomRange = low..high
  BY ZoomsAreNumbers DEF ZoomRange
<1>2. PICK m : m = Min({high, z})
  OBVIOUS
<1>3. Clamped(z) = Max({low, m})
  BY <1>1, <1>2 DEF Clamped
<1>4. m = IF high <= z THEN high ELSE z
  BY <1>2, OfTwo
<1>5. m \in Int
  BY <1>4
<1>6. Max({low, m}) = IF low >= m THEN low ELSE m
  BY <1>5, OfTwo
<1>7. QED BY <1>1, <1>3, <1>4, <1>6

-----------------------------------------------------------------------------
\* The binary search

\* Among n positions of which the first p come before the point, it finds p.
LEMMA PartitionPointFinds ==
  ASSUME NEW n \in Nat, NEW p \in 0..n, NEW before,
         \A m \in 0..(n - 1) : m \in before <=> m < p
  PROVE  PartitionPoint(n, before) = p
<1> DEFINE Mid(low, high) == (low + high) \div 2
           Step(f) == [range \in (0..n) \X (0..n) |->
             LET low == range[1]
                 high == range[2]
                 middle == (low + high) \div 2
             IN  IF low >= high THEN low
                 ELSE IF middle \in before THEN f[<<middle + 1, high>>]
                 ELSE f[<<low, middle>>]]
           Left(f, low, high) ==
             IF low >= high THEN low
             ELSE IF Mid(low, high) \in before THEN f[<<Mid(low, high) + 1, high>>]
             ELSE f[<<low, Mid(low, high)>>]
           search == CHOOSE f : f = Step(f)
           Found(low, high) ==
             IF low >= high \/ p <= low THEN low ELSE IF p >= high THEN high ELSE p
           g == [range \in (0..n) \X (0..n) |-> Found(range[1], range[2])]
<1>1. ASSUME NEW low \in 0..n, NEW high \in 0..n, low < high
      PROVE  /\ Mid(low, high) \in 0..(n - 1) /\ Mid(low, high) \in 0..n
             /\ Mid(low, high) + 1 \in 0..n
             /\ low <= Mid(low, high) /\ Mid(low, high) < high
             /\ Found(low, high) = IF Mid(low, high) \in before
                                   THEN Found(Mid(low, high) + 1, high)
                                   ELSE Found(low, Mid(low, high))
  <2>1. PICK m \in Int : m = (low + high) \div 2
    OBVIOUS
  <2>2. low <= m /\ m < high
    BY <1>1, <2>1
  <2>3. m \in 0..(n - 1) /\ m \in 0..n /\ m + 1 \in 0..n
    BY <2>2
  <2>4. m \in before <=> m < p
    BY <2>3
  <2>5. Found(low, high) = IF m \in before THEN Found(m + 1, high) ELSE Found(low, m)
    BY <1>1, <2>2, <2>4
  <2>6. QED BY <2>1, <2>2, <2>3, <2>5
<1> HIDE DEF Found, Mid
<1>2. ASSUME NEW low \in 0..n, NEW high \in 0..n PROVE g[<<low, high>>] = Found(low, high)
  <2>1. <<low, high>> \in (0..n) \X (0..n)
    OBVIOUS
  <2>2. QED BY <2>1
<1> HIDE DEF g
<1>3. ASSUME NEW f, NEW low \in 0..n, NEW high \in 0..n
      PROVE  Step(f)[<<low, high>>] = Left(f, low, high)
  <2>1. <<low, high>> \in (0..n) \X (0..n)
    OBVIOUS
  <2>2. QED BY <2>1 DEF Mid
<1> HIDE DEF Step
<1>4. g = Step(g)
  <2>1. ASSUME NEW range \in (0..n) \X (0..n) PROVE g[range] = Step(g)[range]
    <3>1. PICK low \in 0..n, high \in 0..n : range = <<low, high>>
      OBVIOUS
    <3>2. Found(low, high) = Left(g, low, high)
      <4>1. CASE low >= high
        BY <4>1 DEF Found
      <4>2. CASE ~(low >= high)
        <5>1. PICK m : m = Mid(low, high)
          OBVIOUS
        <5>2. /\ m \in 0..n /\ m + 1 \in 0..n
              /\ Found(low, high) = IF m \in before THEN Found(m + 1, high) ELSE Found(low, m)
          BY <1>1, <4>2, <5>1
        <5>3. g[<<m + 1, high>>] = Found(m + 1, high) /\ g[<<low, m>>] = Found(low, m)
          BY <1>2, <5>2
        <5>4. QED BY <4>2, <5>1, <5>2, <5>3
      <4>3. QED BY <4>1, <4>2
    <3> HIDE DEF Left
    <3>3. QED BY <1>2, <1>3, <3>1, <3>2
  <2>2. g = [range \in (0..n) \X (0..n) |-> g[range]]
    BY DEF g
  <2>3. Step(g) = [range \in (0..n) \X (0..n) |-> Step(g)[range]]
    BY DEF Step
  <2>4. QED BY <2>1, <2>2, <2>3
<1>5. search = Step(search)
  BY <1>4
<1> HIDE DEF search
<1>6. ASSUME NEW low \in 0..n, NEW high \in 0..n
      PROVE  search[<<low, high>>] = Left(search, low, high)
  BY <1>3, <1>5
<1> DEFINE Right(low, high) == search[<<low, high>>] = Found(low, high)
           T == {k \in Nat : \A low, high \in 0..n : high - low <= k => Right(low, high)}
<1>7. ASSUME NEW low \in 0..n, NEW high \in 0..n, low >= high PROVE Right(low, high)
  BY <1>6, <1>7 DEF Found
<1>8. 0 \in T
  <2>1. ASSUME NEW low \in 0..n, NEW high \in 0..n, high - low <= 0 PROVE Right(low, high)
    BY <1>7, <2>1
  <2> HIDE DEF Right
  <2>2. QED BY <2>1
<1>9. ASSUME NEW k \in Nat, k \in T PROVE k + 1 \in T
  <2>1. ASSUME NEW low \in 0..n, NEW high \in 0..n, high - low <= k + 1, ~(low >= high)
        PROVE  Right(low, high)
    <3>1. PICK m : m = Mid(low, high)
      OBVIOUS
    <3>2. /\ m \in 0..n /\ m + 1 \in 0..n /\ low <= m /\ m < high
          /\ Found(low, high) = IF m \in before THEN Found(m + 1, high) ELSE Found(low, m)
      BY <1>1, <2>1, <3>1
    <3>3. search[<<low, high>>]
            = IF m \in before THEN search[<<m + 1, high>>] ELSE search[<<low, m>>]
      BY <1>6, <2>1, <3>1
    <3>4. high - (m + 1) <= k /\ m - low <= k
      BY <2>1, <3>2
    <3>5. Right(m + 1, high) /\ Right(low, m)
      BY <1>9, <3>2, <3>4
    <3>6. QED BY <3>2, <3>3, <3>5
  <2>2. ASSUME NEW low \in 0..n, NEW high \in 0..n, high - low <= k + 1 PROVE Right(low, high)
    BY <1>7, <2>1, <2>2
  <2> HIDE DEF Right
  <2>3. QED BY <2>2
<1> HIDE DEF T
<1>10. n \in T
  BY <1>8, <1>9, EveryNumber
<1>11. search[<<0, n>>] = Found(0, n)
  <2>1. 0 \in 0..n /\ n \in 0..n /\ n - 0 <= n
    OBVIOUS
  <2>2. Right(0, n)
    BY <1>10, <2>1 DEF T
  <2>3. QED BY <2>2
<1>12. Found(0, n) = p
  BY DEF Found
<1>13. PartitionPoint(n, before) = search[<<0, n>>]
  BY DEF PartitionPoint, search, Step
<1>14. QED BY <1>11, <1>12, <1>13

LEMMA ScaledInOrder ==
  ASSUME NEW a \in Int, NEW b \in Int, NEW z \in Nat, a <= b
  PROVE  a * z <= b * z /\ a * z \in Int /\ b * z \in Int
<1>1. PICK d \in Nat : b = a + d
  <2>1. b - a \in Nat /\ b = a + (b - a)
    OBVIOUS
  <2>2. QED BY <2>1
<1>2. (a + d) * z = a * z + d * z /\ d * z \in Nat /\ a * z \in Int
  OBVIOUS
<1>3. QED BY <1>1, <1>2

\* What comes before a point among positions that are in order ends at one place, and
\* the binary search finds it.
LEMMA SearchEnds ==
  ASSUME NEW n \in Nat, NEW before \in SUBSET (0..(n - 1)),
         \A i, j \in 0..(n - 1) : i <= j /\ j \in before => i \in before
  PROVE  /\ PartitionPoint(n, before) \in 0..n
         /\ \A m \in 0..(n - 1) : m \in before <=> m < PartitionPoint(n, before)
<1>1. PICK p \in 0..n : \A m \in 0..(n - 1) : m \in before <=> m < p
  <2>1. CASE before = {}
    BY <2>1
  <2>2. CASE before # {}
    <3>1. IsFiniteSet(0..(n - 1)) /\ before \in SUBSET Int
      BY FS_Interval
    <3>2. IsFiniteSet(before)
      BY <3>1, FS_Subset
    <3>3. PICK last \in before : \A m \in before : m <= last
      BY <2>2, <3>1, <3>2, Extremes
    <3>4. last + 1 \in 0..n /\ last \in 0..(n - 1)
      OBVIOUS
    <3>5. \A m \in 0..(n - 1) : m \in before <=> m < last + 1
      BY <3>3, <3>4
    <3>6. QED BY <3>4, <3>5
  <2>3. QED BY <2>1, <2>2
<1>2. PartitionPoint(n, before) = p
  BY <1>1, PartitionPointFinds
<1>3. QED BY <1>1, <1>2

\* What two searches leave between them, among things that lie in order, is what touches
\* the stretch from low to high.
Rising(n, f) ==
  /\ f \in [0..(n - 1) -> Int]
  /\ \A i, j \in 0..(n - 1) : i <= j => f[i] <= f[j]

LEMMA SearchShows ==
  ASSUME NEW n \in Nat, NEW low \in Int, NEW high \in Int,
         NEW tops, Rising(n, tops), NEW bottoms, Rising(n, bottoms),
         NEW above \in SUBSET (0..(n - 1)), \A i \in 0..(n - 1) : i \in above <=> bottoms[i] < low,
         NEW begun \in SUBSET (0..(n - 1)), \A i \in 0..(n - 1) : i \in begun <=> tops[i] <= high
  PROVE  \A i : i \in PartitionPoint(n, above)..(PartitionPoint(n, begun) - 1)
                <=> i \in 0..(n - 1) /\ bottoms[i] >= low /\ tops[i] <= high
<1> DEFINE from == PartitionPoint(n, above)
           to == PartitionPoint(n, begun)
<1>1. \A i \in 0..(n - 1) : tops[i] \in Int /\ bottoms[i] \in Int
  BY DEF Rising
<1>2. ASSUME NEW i \in 0..(n - 1), NEW j \in 0..(n - 1), i <= j
      PROVE  /\ j \in above => i \in above
             /\ j \in begun => i \in begun
  <2>1. tops[i] <= tops[j] /\ bottoms[i] <= bottoms[j]
    BY <1>2 DEF Rising
  <2>2. QED BY <1>1, <2>1
<1>3. from \in 0..n /\ \A m \in 0..(n - 1) : m \in above <=> m < from
  <2>1. above \in SUBSET (0..(n - 1))
    OBVIOUS
  <2>2. \A i, j \in 0..(n - 1) : i <= j /\ j \in above => i \in above
    BY <1>2
  <2>3. QED BY <2>1, <2>2, SearchEnds
<1>4. to \in 0..n /\ \A m \in 0..(n - 1) : m \in begun <=> m < to
  <2>1. begun \in SUBSET (0..(n - 1))
    OBVIOUS
  <2>2. \A i, j \in 0..(n - 1) : i <= j /\ j \in begun => i \in begun
    BY <1>2
  <2>3. QED BY <2>1, <2>2, SearchEnds
<1> HIDE DEF from, to
<1>5. \A i : i \in from..(to - 1) <=> i \in 0..(n - 1) /\ i \notin above /\ i \in begun
  BY <1>3, <1>4
<1>6. \A i \in 0..(n - 1) : /\ i \notin above <=> bottoms[i] >= low
                            /\ i \in begun <=> tops[i] <= high
  BY <1>1
<1>7. QED BY <1>5, <1>6 DEF from, to

-----------------------------------------------------------------------------
\* Layout

LEMMA PageSides ==
  ASSUME NEW page \in Page
  PROVE  Width(page) \in Nat \ {0} /\ Height(page) \in Nat \ {0}
BY DEF Page, Width, Height

LEMMA PagesOf ==
  ASSUME NEW pages \in Seq(Page)
  PROVE  /\ Len(pages) \in Nat /\ DOMAIN pages = 1..Len(pages)
         /\ pages = << >> <=> Len(pages) = 0
         /\ \A i \in 1..Len(pages) : pages[i] \in Page
         /\ \A i \in 0..(Len(pages) - 1) : pages[i + 1] \in Page
<1>1. /\ Len(pages) \in Nat /\ DOMAIN pages = 1..Len(pages)
      /\ \A i \in 1..Len(pages) : pages[i] \in Page
  BY LenProperties, ElementOfSeq
<1>2. pages = << >> <=> Len(pages) = 0
  BY EmptySeq
<1>3. \A i \in 0..(Len(pages) - 1) : i + 1 \in 1..Len(pages)
  BY <1>1
<1>4. QED BY <1>1, <1>2, <1>3

\* Things laid below one another: none reaches into the next.
LEMMA StackedInOrder ==
  ASSUME NEW heights \in Seq(Nat), Len(heights) >= 1, NEW first \in Nat, NEW gap \in Nat
  PROVE  /\ Stacked(heights, first, gap) \in [1..Len(heights) -> Nat]
         /\ \A i, j \in 1..Len(heights) :
              i < j => Stacked(heights, first, gap)[i] + heights[i]
                         <= Stacked(heights, first, gap)[j]
<1> DEFINE n == Len(heights)
           Step(f) == [i \in 1..n |-> IF i = 1 THEN first
                                      ELSE f[i - 1] + heights[i - 1] + gap]
           top == CHOOSE f : f = Step(f)
           F == [p \in (1..(n - 1)) \X Nat |-> p[2] + heights[p[1]] + gap]
<1>1. n \in Nat /\ n >= 1 /\ \A i \in 1..n : heights[i] \in Nat
  OBVIOUS
<1>2. \A i \in 1..(n - 1), t \in Nat : F[<<i, t>>] = t + heights[i] + gap
  OBVIOUS
<1>3. F \in [(1..(n - 1)) \X Nat -> Nat]
  <2>1. \A p \in (1..(n - 1)) \X Nat : p[2] + heights[p[1]] + gap \in Nat
    BY <1>1
  <2>2. QED BY <2>1
<1> HIDE DEF F, n
<1>4. PICK f : Recurs(n - 1, Nat, first, F, f)
  <2>1. PICK k \in Nat : k = n - 1
    BY <1>1
  <2>2. F \in [(1..k) \X Nat -> Nat]
    BY <1>3, <2>1
  <2>3. \E f : Recurs(k, Nat, first, F, f)
    BY <2>2, RecursionDefines
  <2>4. QED BY <2>1, <2>3
<1>5. /\ f \in [0..(n - 1) -> Nat] /\ f[0] = first
      /\ \A i \in 1..(n - 1) : f[i] = f[i - 1] + heights[i] + gap
  <2>1. /\ f \in [0..(n - 1) -> Nat] /\ f[0] = first
        /\ \A i \in 1..(n - 1) : f[i] = F[<<i, f[i - 1]>>]
    BY <1>4 DEF Recurs
  <2>2. \A i \in 1..(n - 1) : f[i - 1] \in Nat
    BY <1>1, <2>1
  <2>3. QED BY <1>2, <2>1, <2>2
<1> DEFINE g == [i \in 1..n |-> f[i - 1]]
<1>6. \A i \in 1..n : g[i] = f[i - 1] /\ g[i] \in Nat
  BY <1>1, <1>5
<1>7. g[1] = first /\ \A i \in 2..n : g[i] = g[i - 1] + heights[i - 1] + gap
  <2>1. 1 \in 1..n /\ 1 - 1 = 0 /\ \A i \in 2..n : i \in 1..n /\ i - 1 \in 1..n
    BY <1>1
  <2>2. \A i \in 2..n : i - 1 \in 1..(n - 1)
    BY <1>1
  <2> HIDE DEF g
  <2>3. QED BY <1>5, <1>6, <2>1, <2>2
<1>8. g = Step(g)
  <2>1. \A i \in 1..n : g[i] = Step(g)[i]
    <3>1. \A i \in 1..n : i # 1 => i \in 2..n
      BY <1>1
    <3> HIDE DEF g
    <3>2. QED BY <1>7, <3>1
  <2>2. g = [i \in 1..n |-> g[i]] /\ Step(g) = [i \in 1..n |-> Step(g)[i]]
    OBVIOUS
  <2>3. QED BY <2>1, <2>2
<1> HIDE DEF g
<1>9. top = Step(top)
  BY <1>8
<1>10. Stacked(heights, first, gap) = top
  BY DEF Stacked, n
<1> HIDE DEF top
<1>11. /\ \A i \in 1..n : top[i] = IF i = 1 THEN first
                                   ELSE top[i - 1] + heights[i - 1] + gap
       /\ top = [i \in 1..n |-> top[i]]
  BY <1>9
<1> HIDE DEF Step
<1>12. ASSUME NEW i \in 1..n, i + 1 \in 1..n
       PROVE  top[i + 1] = top[i] + heights[i] + gap
  <2>1. PICK m : m = i + 1 /\ m - 1 = i /\ m # 1 /\ m \in 1..n
    BY <1>1, <1>12
  <2>2. top[m] = top[m - 1] + heights[m - 1] + gap
    BY <1>11, <2>1
  <2>3. QED BY <2>1, <2>2
<1> DEFINE Above(j) == /\ \A i \in 1..n : i <= j => top[i] \in Nat
                       /\ \A i \in 1..n : i < j => top[i] + heights[i] <= top[j]
           T == {k \in Nat : k + 1 <= n => Above(k + 1)}
<1>13. 0 \in T
  <2>1. 1 \in 1..n
    BY <1>1
  <2>2. top[1] = first
    BY <1>11, <2>1
  <2>3. 0 + 1 = 1
    OBVIOUS
  <2>4. QED BY <1>1, <2>2, <2>3
<1>14. ASSUME NEW k \in Nat, k \in T PROVE k + 1 \in T
  <2>1. CASE k + 1 + 1 <= n
    <3>1. PICK l : l = k + 1 /\ l \in 1..n /\ l + 1 \in 1..n
      BY <1>1, <2>1
    <3>2. Above(l)
      BY <1>14, <2>1, <3>1
    <3>3. top[l + 1] = top[l] + heights[l] + gap /\ top[l] \in Nat /\ heights[l] \in Nat
      BY <1>1, <1>12, <3>1, <3>2
    <3>4. ASSUME NEW i \in 1..n, i < l + 1 PROVE top[i] + heights[i] <= top[l + 1]
      <4>1. CASE i = l
        BY <3>3, <4>1
      <4>2. CASE i < l
        <5>1. top[i] + heights[i] <= top[l]
          BY <3>2, <4>2
        <5>2. top[i] \in Nat /\ heights[i] \in Nat
          BY <1>1, <3>1, <3>2, <4>2
        <5>3. QED BY SMTT(30), <3>3, <5>1, <5>2
      <4>3. QED BY <1>1, <3>1, <3>4, <4>1, <4>2
    <3>5. \A i \in 1..n : i <= l + 1 => top[i] \in Nat
      <4>1. top[l + 1] \in Nat
        BY <3>3
      <4>2. \A i \in 1..n : i <= l + 1 => i <= l \/ i = l + 1
        BY <1>1, <3>1
      <4>3. QED BY <3>2, <4>1, <4>2
    <3>6. Above(l + 1)
      BY <3>4, <3>5
    <3>7. QED BY <3>1, <3>6
  <2>2. QED BY <2>1
<1> HIDE DEF T
<1>15. ASSUME NEW j \in 1..n PROVE Above(j)
  <2>1. j - 1 \in Nat /\ (j - 1) + 1 = j /\ j <= n
    BY <1>1
  <2>2. j - 1 \in T
    BY <1>13, <1>14, <2>1, EveryNumber
  <2>3. QED BY <2>1, <2>2 DEF T
<1>16. top \in [1..n -> Nat]
  BY <1>11, <1>15
<1>17. QED BY <1>10, <1>15, <1>16 DEF n

\* The pages of a document lie below one another.
LEMMA PagesInOrder ==
  ASSUME NEW pages \in Seq(Page), pages # << >>
  PROVE  /\ \A i \in 0..(Len(pages) - 1) :
              /\ Top(pages, i) \in Nat /\ Bottom(pages, i) \in Nat
              /\ Top(pages, i) < Bottom(pages, i)
              /\ Bottom(pages, i) <= ContentHeight(pages)
         /\ \A i, j \in 0..(Len(pages) - 1) : i < j => Bottom(pages, i) <= Top(pages, j)
         /\ ContentHeight(pages) \in Nat
<1> DEFINE n == Len(pages)
           heights == Heights(pages)
           s == Stacked(heights, Margin, Gap)
<1>1. /\ n \in Nat /\ n >= 1 /\ Margin \in Nat /\ Gap \in Nat
      /\ \A i \in 1..n : Height(pages[i]) \in Nat \ {0}
  BY SMTT(30), PagesOf, PageSides, PageLayoutAssumption
<1>2. /\ heights \in Seq(Nat) /\ Len(heights) = n
      /\ \A i \in 1..n : heights[i] = Height(pages[i])
  BY <1>1 DEF Heights
<1>3. \A i : Top(pages, i) = s[i + 1] /\ Bottom(pages, i) = s[i + 1] + Height(pages[i + 1])
  BY DEF Top, Bottom
<1> HIDE DEF n, heights
<1>4. /\ s \in [1..n -> Nat]
      /\ \A i, j \in 1..n : i < j => s[i] + heights[i] <= s[j]
  BY <1>1, <1>2, StackedInOrder
<1> HIDE DEF s
<1>5. ASSUME NEW i \in 0..(n - 1)
      PROVE  /\ i + 1 \in 1..n
             /\ Top(pages, i) \in Nat /\ Bottom(pages, i) \in Nat
             /\ Top(pages, i) < Bottom(pages, i)
  <2>1. i + 1 \in 1..n
    BY <1>1
  <2>2. s[i + 1] \in Nat /\ Height(pages[i + 1]) \in Nat \ {0}
    BY <1>1, <1>4, <2>1
  <2>3. QED BY <1>3, <2>1, <2>2
<1>6. ASSUME NEW i \in 0..(n - 1), NEW j \in 0..(n - 1), i < j
      PROVE  Bottom(pages, i) <= Top(pages, j)
  <2>1. PICK k \in 1..n, l \in 1..n : k = i + 1 /\ l = j + 1 /\ k < l
    BY <1>1, <1>5, <1>6
  <2>2. s[k] + heights[k] <= s[l]
    BY <1>4, <2>1
  <2>3. heights[k] = Height(pages[k])
    BY <1>2
  <2>4. QED BY <1>3, <2>1, <2>2, <2>3
<1>7. ContentHeight(pages) = Bottom(pages, n - 1) + Margin
  BY DEF ContentHeight, n
<1>8. n - 1 \in 0..(n - 1)
  BY <1>1
<1>9. ContentHeight(pages) \in Nat /\ Bottom(pages, n - 1) \in Nat
  BY <1>1, <1>5, <1>7, <1>8
<1>10. ASSUME NEW i \in 0..(n - 1) PROVE Bottom(pages, i) <= ContentHeight(pages)
  <2>1. CASE i = n - 1
    BY <1>1, <1>7, <1>9, <2>1
  <2>2. CASE i # n - 1
    <3>1. i < n - 1
      BY <1>1, <2>2
    <3>2. Bottom(pages, i) <= Top(pages, n - 1) /\ Top(pages, n - 1) < Bottom(pages, n - 1)
      BY <1>5, <1>6, <1>8, <3>1
    <3>3. Bottom(pages, i) \in Nat /\ Top(pages, n - 1) \in Nat
      BY <1>5, <1>8
    <3>4. QED BY <1>1, <1>7, <1>9, <3>2, <3>3
  <2>3. QED BY <2>1, <2>2
<1>11. QED BY <1>5, <1>6, <1>9, <1>10 DEF n

LEMMA ContentSides ==
  ASSUME NEW pages \in Seq(Page)
  PROVE  /\ ContentWidth(pages) \in Nat /\ ContentHeight(pages) \in Nat
         /\ pages # << >> => ContentWidth(pages) # 0
<1>1. CASE pages = << >>
  BY <1>1 DEF ContentWidth, ContentHeight
<1>2. CASE pages # << >>
  <2> DEFINE widths == {Width(page) : page \in ToSet(pages)}
             f == [i \in 1..Len(pages) |-> Width(pages[i])]
  <2>1. /\ Len(pages) \in Nat /\ Len(pages) >= 1 /\ DOMAIN pages = 1..Len(pages)
        /\ \A i \in 1..Len(pages) : Width(pages[i]) \in Nat \ {0}
    BY <1>2, PagesOf, PageSides
  <2>2. f \in [1..Len(pages) -> Int] /\ \A i \in 1..Len(pages) : f[i] = Width(pages[i])
    BY <2>1
  <2>3. IsFiniteSet(1..Len(pages)) /\ 1..Len(pages) # {}
    <3>1. 1 \in 1..Len(pages) /\ 1 \in Int /\ Len(pages) \in Int
      BY <2>1
    <3>2. QED BY <3>1, FS_Interval
  <2> HIDE DEF f
  <2>4. PICK i \in 1..Len(pages) : \A j \in 1..Len(pages) : f[j] <= f[i]
    BY <2>2, <2>3, GreatestOf
  <2>5. widths = {Width(pages[j]) : j \in 1..Len(pages)}
    BY <2>1 DEF ToSet
  <2>6. Width(pages[i]) \in widths /\ \A w \in widths : Width(pages[i]) >= w
    BY <2>2, <2>4, <2>5
  <2>7. \A w \in widths : w \in Nat \ {0}
    BY <2>1, <2>5
  <2> HIDE DEF widths
  <2>8. Max(widths) \in widths
    BY <2>6 DEF Max
  <2>9. ContentWidth(pages) = Max(widths) + 2 * Margin
    BY <1>2 DEF ContentWidth, widths
  <2>10. ContentWidth(pages) \in Nat \ {0}
    BY <2>7, <2>8, <2>9, PageLayoutAssumption
  <2>11. QED BY <1>2, <2>10, PagesInOrder
<1>3. QED BY <1>1, <1>2

\* The pages that touch the viewport, overscan included, and no others.
LEMMA VisibleAreThose ==
  ASSUME NEW pages \in Seq(Page), NEW z \in Nat \ {0},
         NEW offset \in Int, NEW height \in Int, NEW overscan \in Int
  PROVE  VisiblePages(pages, z, offset, height, overscan)
           = {i \in 0..(Len(pages) - 1) :
                /\ Bottom(pages, i) * z >= offset - overscan
                /\ Top(pages, i) * z <= offset + height + overscan}
<1> DEFINE n == Len(pages)
           tops == [i \in 0..(n - 1) |-> Top(pages, i) * z]
           bottoms == [i \in 0..(n - 1) |-> Bottom(pages, i) * z]
           above == {i \in 0..(n - 1) : Bottom(pages, i) * z < offset - overscan}
           begun == {i \in 0..(n - 1) : Top(pages, i) * z <= offset + height + overscan}
<1>1. n \in Nat
  OBVIOUS
<1>2. \A i \in 0..(n - 1) : Top(pages, i) \in Nat /\ Bottom(pages, i) \in Nat
  <2>1. CASE pages = << >>
    BY <2>1
  <2>2. CASE pages # << >>
    BY <2>2, PagesInOrder
  <2>3. QED BY <2>1, <2>2
<1>3. ASSUME NEW i \in 0..(n - 1), NEW j \in 0..(n - 1), i <= j
      PROVE  Bottom(pages, i) <= Bottom(pages, j) /\ Top(pages, i) <= Top(pages, j)
  <2>1. CASE i = j
    BY <1>2, <2>1
  <2>2. CASE i < j
    <3>1. pages # << >>
      BY <1>3
    <3>2. /\ Top(pages, i) < Bottom(pages, i) /\ Bottom(pages, i) <= Top(pages, j)
          /\ Top(pages, j) < Bottom(pages, j)
      BY <2>2, <3>1, PagesInOrder
    <3>3. /\ Top(pages, i) \in Nat /\ Bottom(pages, i) \in Nat
          /\ Top(pages, j) \in Nat /\ Bottom(pages, j) \in Nat
      BY <1>2
    <3>4. QED BY <3>2, <3>3
  <2>3. QED BY <1>3, <2>1, <2>2
<1>4. ASSUME NEW i \in 0..(n - 1), NEW j \in 0..(n - 1), i <= j
      PROVE  /\ Bottom(pages, i) * z <= Bottom(pages, j) * z
             /\ Top(pages, i) * z <= Top(pages, j) * z
  BY <1>2, <1>3, <1>4, ScaledInOrder
<1>5. \A i \in 0..(n - 1) : Top(pages, i) * z \in Int /\ Bottom(pages, i) * z \in Int
  BY <1>2
<1>6. VisiblePages(pages, z, offset, height, overscan)
        = PartitionPoint(n, above)..(PartitionPoint(n, begun) - 1)
  BY DEF VisiblePages, Positions
<1>7. /\ tops \in [0..(n - 1) -> Int] /\ bottoms \in [0..(n - 1) -> Int]
      /\ \A i \in 0..(n - 1) : tops[i] = Top(pages, i) * z /\ bottoms[i] = Bottom(pages, i) * z
  BY <1>5
<1> HIDE DEF n, tops, bottoms
<1>8. PICK low \in Int, high \in Int :
        low = offset - overscan /\ high = offset + height + overscan
  OBVIOUS
<1>9. /\ above \in SUBSET (0..(n - 1)) /\ begun \in SUBSET (0..(n - 1))
      /\ \A i \in 0..(n - 1) : i \in above <=> bottoms[i] < low
      /\ \A i \in 0..(n - 1) : i \in begun <=> tops[i] <= high
  BY <1>7, <1>8
<1>10. Rising(n, tops) /\ Rising(n, bottoms)
  BY <1>4, <1>7 DEF Rising
<1> HIDE DEF above, begun
<1>11. \A i : i \in PartitionPoint(n, above)..(PartitionPoint(n, begun) - 1)
               <=> i \in 0..(n - 1) /\ bottoms[i] >= low /\ tops[i] <= high
  BY <1>1, <1>9, <1>10, SearchShows
<1>12. QED BY ZenonT(60), <1>6, <1>7, <1>8, <1>11 DEF n

\* Every document with pages has a current one.
LEMMA CurrentIsAPage ==
  ASSUME NEW pages \in Seq(Page), NEW z \in Nat \ {0}, NEW offset \in Int, NEW height \in Int
  PROVE  /\ pages = << >> => CurrentPage(pages, z, offset, height) = NoPage
         /\ pages # << >> => CurrentPage(pages, z, offset, height) \in 0..(Len(pages) - 1)
<1>1. pages = << >> => CurrentPage(pages, z, offset, height) = NoPage
  BY DEF CurrentPage
<1>2. ASSUME pages # << >> PROVE CurrentPage(pages, z, offset, height) \in 0..(Len(pages) - 1)
  <2> DEFINE n == Len(pages)
             all == 0..(n - 1)
             c(i) == Covered(pages, z, offset, height, i)
             covering == {i \in VisiblePages(pages, z, offset, height, 0) : c(i) > 0}
             above == {i \in Positions(0, Len(pages)) : Bottom(pages, i) * z < offset}
             Chosen(i) == \A j \in covering : \/ c(j) < c(i)
                                              \/ /\ c(j) = c(i)
                                                 /\ i <= j
  <2>1. n \in Nat /\ n >= 1
    BY <1>2
  <2>2. \A i \in all : Top(pages, i) \in Nat /\ Bottom(pages, i) \in Nat
    BY <1>2, PagesInOrder
  <2>3. ASSUME NEW i \in all PROVE c(i) \in Int
    <3>1. PICK a \in Int, b \in Int, d \in Int, e \in Int :
            /\ a = Bottom(pages, i) * z /\ b = offset + height
            /\ d = Top(pages, i) * z /\ e = offset
      BY <2>2
    <3>2. Min({a, b}) \in Int /\ Max({d, e}) \in Int
      BY ZenonT(60), <3>1, OfTwo
    <3>3. c(i) = Min({a, b}) - Max({d, e})
      BY <3>1 DEF Covered
    <3>4. QED BY <3>2, <3>3
  <2>4. VisiblePages(pages, z, offset, height, 0) \subseteq all
    BY VisibleAreThose
  <2>5. covering \in SUBSET all /\ IsFiniteSet(all) /\ all \in SUBSET Int
    BY <2>1, <2>4, FS_Interval
  <2>6. CurrentPage(pages, z, offset, height)
          = IF covering = {} THEN Min({PartitionPoint(n, above), n - 1})
            ELSE CHOOSE i \in covering : Chosen(i)
    BY <1>2 DEF CurrentPage
  <2>7. ASSUME covering = {} PROVE Min({PartitionPoint(n, above), n - 1}) \in all
    <3>1. above \in SUBSET all
      BY DEF Positions
    <3>2. ASSUME NEW i \in all, NEW j \in all, i <= j, j \in above PROVE i \in above
      <4>1. Bottom(pages, i) <= Bottom(pages, j)
        <5>1. CASE i = j
          BY <2>2, <5>1
        <5>2. CASE i < j
          <6>1. /\ Bottom(pages, i) <= Top(pages, j)
                /\ Top(pages, j) < Bottom(pages, j)
            BY <1>2, <5>2, PagesInOrder
          <6>2. QED BY <2>2, <6>1
        <5>3. QED BY <3>2, <5>1, <5>2
      <4>2. /\ Bottom(pages, i) * z <= Bottom(pages, j) * z
            /\ Bottom(pages, i) * z \in Int /\ Bottom(pages, j) * z \in Int
        <5>1. Bottom(pages, i) \in Int /\ Bottom(pages, j) \in Int /\ z \in Nat
          BY <2>2
        <5>2. QED BY <4>1, <5>1, ScaledInOrder
      <4>3. Bottom(pages, i) * z < offset
        BY <3>2, <4>2
      <4>4. QED BY <4>3 DEF Positions
    <3> HIDE DEF above
    <3>3. PartitionPoint(n, above) \in 0..n
      BY <2>1, <3>1, <3>2, SearchEnds
    <3>4. PICK p \in Int : p = PartitionPoint(n, above) /\ p \in 0..n
      BY <3>3
    <3>5. Min({p, n - 1}) = IF p <= n - 1 THEN p ELSE n - 1
      <4>1. n - 1 \in Int
        BY <2>1
      <4>2. QED BY <4>1, OfTwo
    <3>6. QED BY <2>1, <3>4, <3>5
  <2>8. ASSUME covering # {} PROVE \E i \in covering : Chosen(i)
    <3> DEFINE f == [i \in covering |-> c(i)]
    <3>1. IsFiniteSet(covering)
      BY <2>5, FS_Subset
    <3>2. f \in [covering -> Int] /\ \A i \in covering : f[i] = c(i)
      BY <2>3, <2>5
    <3> HIDE DEF f
    <3>3. PICK x \in covering : \A y \in covering : f[y] <= f[x]
      BY <2>8, <3>1, <3>2, GreatestOf
    <3> DEFINE best == {i \in covering : f[i] = f[x]}
    <3>4. best \in SUBSET Nat /\ best # {}
      BY <2>5
    <3> HIDE DEF best
    <3>5. PICK i \in best : \A m \in best : i <= m
      BY <3>4, LeastNumber
    <3>6. i \in covering /\ f[i] = f[x]
      BY DEF best
    <3>7. ASSUME NEW j \in covering PROVE c(j) < c(i) \/ (c(j) = c(i) /\ i <= j)
      <4>1. f[j] \in Int /\ f[i] \in Int /\ f[j] <= f[i]
        BY <3>2, <3>3, <3>6
      <4>2. f[j] = f[i] => i <= j
        BY <3>5, <3>6 DEF best
      <4>3. f[j] = c(j) /\ f[i] = c(i)
        BY <3>2, <3>6
      <4> HIDE DEF c
      <4>4. QED BY <4>1, <4>2, <4>3
    <3>8. QED BY <3>6, <3>7
  <2> HIDE DEF covering, Chosen
  <2>9. QED BY <2>5, <2>6, <2>7, <2>8
<1>3. QED BY <1>1, <1>2

-----------------------------------------------------------------------------
\* What the methods of ViewerState keep

\* A view with its zoom on the ladder.
Scaled(v) == v \in View /\ v.zoom \in ZoomRange

\* The current page is one of the pages, the one a jump asked for or the one that covers
\* most of the viewport, and a jump asks for the top of its page.
Placed(v) ==
  /\ (v.current = NoPage) <=> (v.pages = << >>)
  /\ v.current < Len(v.pages)
  /\ v.jumped \in {NoPage, v.current}
  /\ v.jumped # NoPage => v.request = Top(v.pages, v.jumped) * v.zoom
  /\ (v.jumped = NoPage /\ v.viewport.height > 0) =>
       v.current = CurrentPage(v.pages, v.zoom, v.offset, v.viewport.height)

WidthFits(v) ==
  v.fit = "width" => v.zoom = FitWidthZoom(ContentWidth(v.pages), v.fitted.width)
Steady(v) == v.fit = "width" => ~Moved(v.viewport.width, v.fitted.width)

SoundView(v) == Scaled(v) /\ Placed(v) /\ WidthFits(v)

LEMMA ZoomFits ==
  ASSUME NEW width \in Nat, NEW viewport \in Nat
  PROVE  FitWidthZoom(width, viewport) \in ZoomRange
<1>1. CASE width = 0 \/ viewport = 0
  BY <1>1, ZoomsAreNumbers DEF FitWidthZoom
<1>2. CASE ~(width = 0 \/ viewport = 0)
  <2>1. PICK q \in Int : q = viewport \div width
    BY <1>2
  <2>2. FitWidthZoom(width, viewport) = Clamped(q)
    BY <1>2, <2>1 DEF FitWidthZoom
  <2>3. QED BY <2>2, ClampedFits
<1>3. QED BY <1>1, <1>2

LEMMA PageFits ==
  ASSUME NEW page \in Page, NEW across \in Nat, NEW down \in Nat
  PROVE  FitPageZoom(page, across, down) \in ZoomRange
<1>1. Width(page) \in Nat /\ Height(page) \in Nat \ {0}
  BY PageSides
<1>2. PICK a \in Int : a = FitWidthZoom(Width(page), across)
  <2>1. FitWidthZoom(Width(page), across) \in ZoomRange
    BY <1>1, ZoomFits
  <2>2. ZoomRange \subseteq Int
    BY ZoomsAreNumbers
  <2>3. QED BY <2>1, <2>2
<1>3. PICK b \in Int : b = IF down = 0 THEN Unit ELSE down \div Height(page)
  <2>1. Unit \in Int
    BY PageLayoutAssumption
  <2>2. PICK h \in Nat \ {0} : h = Height(page)
    BY <1>1
  <2>3. down \div h \in Int
    OBVIOUS
  <2>4. QED BY <2>1, <2>2, <2>3
<1>4. PICK m \in Int : m = Min({a, b})
  <2>1. Min({a, b}) = IF a <= b THEN a ELSE b
    BY OfTwo
  <2>2. QED BY <2>1
<1>5. FitPageZoom(page, across, down) = Clamped(m)
  BY <1>2, <1>3, <1>4 DEF FitPageZoom
<1>6. QED BY <1>5, ClampedFits

LEMMA AnchoredIsOffset ==
  ASSUME NEW offset \in Nat, NEW anchor \in Int, NEW old \in Nat \ {0}, NEW new \in Nat
  PROVE  AnchoredOffset(offset, anchor, old, new) \in Nat
<1>1. PICK p \in Int : p = (offset + anchor) * new
  OBVIOUS
<1>2. PICK q \in Int : q = p \div old
  OBVIOUS
<1>3. PICK d \in Int : d = q - anchor
  OBVIOUS
<1>4. AnchoredOffset(offset, anchor, old, new) = Max({0, d})
  BY <1>1, <1>2, <1>3 DEF AnchoredOffset
<1>5. Max({0, d}) = IF 0 >= d THEN 0 ELSE d
  BY OfTwo
<1>6. QED BY <1>4, <1>5

\* The fields of a view.
LEMMA ViewFields ==
  ASSUME NEW v \in View
  PROVE  /\ v.pages \in Seq(Page) /\ v.zoom \in Nat \ {0} /\ v.offset \in Nat
         /\ v.viewport.height \in Nat /\ v.viewport.width \in Nat
         /\ v.fitted.height \in Nat /\ v.fitted.width \in Nat
         /\ v.current \in Nat \cup {NoPage} /\ v.jumped \in Nat \cup {NoPage}
         /\ v.request \in Nat \cup {Nowhere} /\ v.fit \in FitMode
BY DEF View, Size

LEMMA RefreshedPlaces ==
  ASSUME NEW v, Scaled(v), v.jumped = NoPage
  PROVE  LET w == Refreshed(v)
         IN  /\ Scaled(w) /\ Placed(w)
             /\ w.pages = v.pages /\ w.zoom = v.zoom /\ w.offset = v.offset /\ w.fit = v.fit
             /\ w.viewport = v.viewport /\ w.fitted = v.fitted /\ w.jumped = NoPage
<1>1. /\ v \in View /\ v.zoom \in ZoomRange
      /\ v.pages \in Seq(Page) /\ v.zoom \in Nat \ {0} /\ v.offset \in Nat
      /\ v.viewport.height \in Nat
  BY ViewFields DEF Scaled
<1>2. PICK c : c = CurrentPage(v.pages, v.zoom, v.offset, v.viewport.height)
  OBVIOUS
<1> DEFINE pages == v.pages
           zoom == v.zoom
           offset == v.offset
           height == v.viewport.height
<1>a. pages \in Seq(Page) /\ zoom \in Nat \ {0} /\ offset \in Int /\ height \in Int
  BY <1>1
<1>b. c = CurrentPage(pages, zoom, offset, height)
  BY <1>2
<1> HIDE DEF pages, zoom, offset, height
<1>c. /\ pages = << >> => c = NoPage
      /\ pages # << >> => c \in 0..(Len(pages) - 1)
  BY <1>a, <1>b, CurrentIsAPage
<1> USE DEF pages, zoom, offset, height
<1>3. v.pages = << >> => c = NoPage
  BY <1>c
<1>4. v.pages # << >> => c \in 0..(Len(v.pages) - 1)
  BY <1>c
<1> HIDE DEF pages, zoom, offset, height
<1>5. /\ c \in Nat \cup {NoPage} /\ c < Len(v.pages)
      /\ (c = NoPage) <=> (v.pages = << >>)
  <2>1. CASE v.pages = << >>
    BY <1>3, <2>1 DEF NoPage
  <2>2. CASE v.pages # << >>
    <3>1. Len(v.pages) \in Nat
      BY <1>1
    <3>2. QED BY <1>4, <2>2, <3>1 DEF NoPage
  <2>3. QED BY <2>1, <2>2
<1>6. PICK w : w = [v EXCEPT !.current = c]
  OBVIOUS
<1>7. w = Refreshed(v)
  BY <1>2, <1>6 DEF Refreshed
<1>8. w \in View
  BY <1>1, <1>5, <1>6 DEF View
<1>9. /\ w.pages = v.pages /\ w.zoom = v.zoom /\ w.offset = v.offset /\ w.fit = v.fit
      /\ w.viewport = v.viewport /\ w.fitted = v.fitted /\ w.jumped = NoPage
      /\ w.current = c
  BY <1>1, <1>6 DEF View
<1>10. Scaled(w)
  BY <1>1, <1>8, <1>9 DEF Scaled
<1>11. Placed(w)
  BY <1>2, <1>5, <1>9 DEF Placed
<1>12. QED BY <1>7, <1>9, <1>10, <1>11

LEMMA SetZoomPlaces ==
  ASSUME NEW v, Scaled(v), NEW zoom \in Int, NEW anchor \in Int
  PROVE  LET w == SetZoomAnchored(v, zoom, anchor)
         IN  /\ Scaled(w) /\ Placed(w)
             /\ w.pages = v.pages /\ w.zoom = Clamped(zoom) /\ w.fit = v.fit
             /\ w.viewport = v.viewport /\ w.fitted = v.fitted
<1>1. /\ v \in View /\ v.zoom \in ZoomRange
      /\ v.pages \in Seq(Page) /\ v.zoom \in Nat \ {0} /\ v.offset \in Nat
  BY ViewFields DEF Scaled
<1>2. PICK new : new = Clamped(zoom) /\ new \in ZoomRange
  BY ClampedFits
<1>3. new \in Nat \ {0}
  BY <1>2, ZoomsAreNumbers
<1>4. PICK offset \in Nat : offset = AnchoredOffset(v.offset, anchor, v.zoom, new)
  BY <1>1, <1>3, AnchoredIsOffset
<1>5. PICK u : u = [v EXCEPT !.zoom = new, !.offset = offset, !.request = offset,
                             !.jumped = NoPage]
  OBVIOUS
<1>6. u \in View
  BY <1>1, <1>3, <1>4, <1>5 DEF View
<1>7. /\ u.pages = v.pages /\ u.zoom = new /\ u.fit = v.fit
      /\ u.viewport = v.viewport /\ u.fitted = v.fitted /\ u.jumped = NoPage
  BY <1>1, <1>5 DEF View
<1>8. Scaled(u)
  BY <1>2, <1>6, <1>7 DEF Scaled
<1>9. SetZoomAnchored(v, zoom, anchor) = Refreshed(u)
  BY <1>2, <1>4, <1>5 DEF SetZoomAnchored
<1>10. QED BY <1>2, <1>7, <1>8, <1>9, RefreshedPlaces

\* The steps of the ladder lie on it.
LEMMA StepsAreZooms ==
  ASSUME NEW z \in Nat
  PROVE  StepIn(z) \in Int /\ StepOut(z) \in Int
<1>1. ASSUME NEW S \in SUBSET ZoomSteps, S # {} PROVE Min(S) \in Int /\ Max(S) \in Int
  <2>1. S \in SUBSET Int /\ IsFiniteSet(S)
    <3>1. ZoomSteps \in SUBSET Int /\ IsFiniteSet(ZoomSteps)
      BY ZoomsAreNumbers
    <3>2. IsFiniteSet(S)
      BY <3>1, FS_Subset
    <3>3. QED BY <3>1, <3>2
  <2>2. Min(S) \in S /\ Max(S) \in S
    BY <1>1, <2>1, Extremes
  <2>3. QED BY <2>1, <2>2
<1>2. Max(ZoomSteps) \in ZoomSteps /\ Min(ZoomSteps) \in ZoomSteps
  <2>1. ZoomSteps \in SUBSET Int /\ IsFiniteSet(ZoomSteps) /\ ZoomSteps # {}
    BY ZoomsAreNumbers
  <2>2. QED BY <2>1, Extremes
<1> DEFINE into == {s \in ZoomSteps : s > z} \cup {Max(ZoomSteps)}
           out == {s \in ZoomSteps : s < z} \cup {Min(ZoomSteps)}
<1>3. into \in SUBSET ZoomSteps /\ into # {} /\ out \in SUBSET ZoomSteps /\ out # {}
  BY <1>2
<1>4. StepIn(z) = Min(into) /\ StepOut(z) = Max(out)
  BY DEF StepIn, StepOut
<1> HIDE DEF into, out
<1>5. Min(into) \in Int
  BY <1>1, <1>3
<1>6. Max(out) \in Int
  BY <1>1, <1>3
<1>7. QED BY <1>4, <1>5, <1>6

\* Keeping the fit of a view: what reapply_fit_mode leaves fits the viewport.
LEMMA RefitIsSound ==
  ASSUME NEW v, Scaled(v), Placed(v)
  PROVE  LET w == ReapplyFit(v)
         IN  SoundView(w) /\ w.fitted = w.viewport
<1>1. /\ v \in View /\ v.zoom \in ZoomRange /\ v.pages \in Seq(Page)
      /\ v.viewport \in Size /\ v.viewport.height \in Nat /\ v.viewport.width \in Nat
      /\ v.current \in Nat \cup {NoPage}
  BY ViewFields DEF Scaled, View
<1>2. PICK w : w = [v EXCEPT !.fitted = v.viewport]
  OBVIOUS
<1>3. /\ w \in View
      /\ w.pages = v.pages /\ w.zoom = v.zoom /\ w.offset = v.offset /\ w.fit = v.fit
      /\ w.request = v.request /\ w.current = v.current /\ w.jumped = v.jumped
      /\ w.viewport = v.viewport /\ w.fitted = v.viewport
  BY <1>1, <1>2 DEF View
<1>4. Scaled(w)
  BY <1>1, <1>3 DEF Scaled
<1>5. PICK anchor \in Int : anchor = v.viewport.height \div 2
  <2>1. PICK h \in Nat : h = v.viewport.height
    BY <1>1
  <2>2. h \div 2 \in Int
    OBVIOUS
  <2>3. QED BY <2>1, <2>2
<1> DEFINE To(zoom) == SetZoomAnchored(w, zoom, anchor)
           width == FitWidthZoom(ContentWidth(v.pages), v.viewport.width)
           page == FitPageZoom(v.pages[v.current + 1], v.viewport.width, v.viewport.height)
<1>6. ReapplyFit(v) = CASE v.fit = "width" -> To(width)
                        [] v.fit = "page" /\ v.current # NoPage -> To(page)
                        [] OTHER -> w
  BY <1>2, <1>5 DEF ReapplyFit
<1> HIDE DEF To, width, page
<1>7. ASSUME NEW zoom \in ZoomRange
      PROVE  /\ Scaled(To(zoom)) /\ Placed(To(zoom))
             /\ To(zoom).pages = v.pages /\ To(zoom).zoom = zoom /\ To(zoom).fit = v.fit
             /\ To(zoom).viewport = v.viewport /\ To(zoom).fitted = v.viewport
  <2>1. zoom \in Int
    BY ZoomsAreNumbers
  <2>2. Clamped(zoom) = zoom
    BY <2>1, ClampedFits
  <2>3. QED BY <1>3, <1>4, <2>1, <2>2, SetZoomPlaces DEF To
<1>8. width \in ZoomRange
  BY <1>1, ContentSides, ZoomFits DEF width
<1>9. CASE v.fit = "width"
  <2>1. ReapplyFit(v) = To(width)
    BY <1>6, <1>9
  <2>2. /\ Scaled(To(width)) /\ Placed(To(width))
        /\ To(width).pages = v.pages /\ To(width).zoom = width
        /\ To(width).viewport = v.viewport /\ To(width).fitted = v.viewport
    BY <1>7, <1>8
  <2>3. WidthFits(To(width))
    BY <2>2 DEF WidthFits, width
  <2>4. QED BY <2>1, <2>2, <2>3 DEF SoundView
<1>10. CASE v.fit = "page" /\ v.current # NoPage
  <2>1. ReapplyFit(v) = To(page)
    BY <1>6, <1>10
  <2>2. page \in ZoomRange
    <3>1. v.current + 1 \in 1..Len(v.pages)
      <4>1. v.current < Len(v.pages) /\ Len(v.pages) \in Nat /\ v.current \in Nat
        BY <1>1, <1>10 DEF Placed
      <4>2. QED BY <4>1
    <3>2. v.pages[v.current + 1] \in Page
      BY <1>1, <3>1
    <3>3. QED BY <1>1, <3>2, PageFits DEF page
  <2>3. /\ Scaled(To(page)) /\ Placed(To(page))
        /\ To(page).fit = v.fit
        /\ To(page).viewport = v.viewport /\ To(page).fitted = v.viewport
    BY <1>7, <2>2
  <2>4. WidthFits(To(page))
    BY <1>10, <2>3 DEF WidthFits
  <2>5. QED BY <2>1, <2>3, <2>4 DEF SoundView
<1>11. CASE v.fit # "width" /\ ~(v.fit = "page" /\ v.current # NoPage)
  <2>1. ReapplyFit(v) = w
    BY <1>6, <1>11
  <2>2. WidthFits(w)
    BY <1>3, <1>11 DEF WidthFits
  <2>3. Placed(w)
    BY <1>3 DEF Placed
  <2>4. QED BY <1>3, <1>4, <2>1, <2>2, <2>3 DEF SoundView
<1>12. QED BY <1>9, <1>10, <1>11

\* A view that was just fitted is steady.
LEMMA FittedIsSteady ==
  ASSUME NEW w \in View, w.fitted = w.viewport
  PROVE  Steady(w)
<1>1. w.viewport.width \in Nat
  BY ViewFields
<1>2. PICK a \in Nat : a = w.viewport.width
  BY <1>1
<1>3. Tolerance \in Nat
  BY ViewStateAssumption
<1>4. ~Moved(a, a)
  BY <1>3 DEF Moved
<1>5. QED BY <1>2, <1>4 DEF Steady

LEMMA SyncKeepsSound ==
  ASSUME NEW v, SoundView(v)
  PROVE  SoundView(SyncFit(v)) /\ Steady(SyncFit(v))
<1>1. PICK w : w = ReapplyFit(v)
  OBVIOUS
<1>2. SoundView(w) /\ Steady(w)
  <2>1. SoundView(w) /\ w.fitted = w.viewport
    BY <1>1, RefitIsSound DEF SoundView
  <2>2. w \in View
    BY <2>1 DEF SoundView, Scaled
  <2>3. QED BY <2>1, <2>2, FittedIsSteady
<1>3. SyncFit(v) = w \/ (SyncFit(v) = v /\ ~(v.fit = "width" /\ Moved(v.viewport.width, v.fitted.width)))
  BY <1>1 DEF SyncFit
<1>4. QED BY <1>2, <1>3 DEF Steady

LEMMA AdoptedIsSound ==
  ASSUME NEW v, Scaled(v), NEW pages \in Seq(Page)
  PROVE  SoundView(Adopted(v, pages)) /\ Steady(Adopted(v, pages))
<1>1. PICK u : u = [v EXCEPT !.pages = pages, !.jumped = NoPage]
  OBVIOUS
<1>2. u \in View /\ u.zoom = v.zoom /\ u.jumped = NoPage
  BY <1>1 DEF Scaled, View
<1>3. Scaled(u)
  BY <1>2 DEF Scaled
<1>4. PICK w : w = Refreshed(u)
  OBVIOUS
<1>5. Scaled(w) /\ Placed(w)
  BY <1>2, <1>3, <1>4, RefreshedPlaces
<1>6. PICK x : x = ReapplyFit(w)
  OBVIOUS
<1>7. SoundView(x) /\ x.fitted = x.viewport
  BY <1>5, <1>6, RefitIsSound
<1>8. x \in View
  BY <1>7 DEF SoundView, Scaled
<1>9. Adopted(v, pages) = x
  BY <1>1, <1>4, <1>6 DEF Adopted
<1>10. QED BY <1>7, <1>8, <1>9, FittedIsSteady

\* A jump keeps the fit and asks for the top of its page.
LEMMA ScrolledIsSound ==
  ASSUME NEW v, SoundView(v), NEW i \in Nat
  PROVE  LET w == ScrolledTo(v, i)
         IN  SoundView(w) /\ (Steady(v) => Steady(w))
<1>1. /\ v \in View /\ v.zoom \in ZoomRange /\ v.pages \in Seq(Page)
      /\ v.zoom \in Nat \ {0}
  BY ViewFields DEF SoundView, Scaled
<1>2. CASE i >= Len(v.pages)
  <2>1. ScrolledTo(v, i) = v
    BY <1>2 DEF ScrolledTo
  <2>2. QED BY <2>1
<1>3. CASE ~(i >= Len(v.pages))
  <2>1. /\ Len(v.pages) \in Nat /\ i \in 0..(Len(v.pages) - 1) /\ v.pages # << >>
    BY <1>1, <1>3
  <2>2. Top(v.pages, i) \in Nat
    BY <1>1, <2>1, PagesInOrder
  <2>3. PICK top \in Nat : top = Top(v.pages, i) * v.zoom
    BY <1>1, <2>2
  <2>4. PICK w : w = [v EXCEPT !.offset = top, !.request = top, !.current = i, !.jumped = i]
    OBVIOUS
  <2>5. ScrolledTo(v, i) = w
    BY <1>3, <2>3, <2>4 DEF ScrolledTo
  <2>6. w \in View
    BY <1>1, <2>3, <2>4 DEF View
  <2>7. /\ w.pages = v.pages /\ w.zoom = v.zoom /\ w.offset = top /\ w.fit = v.fit
        /\ w.request = top /\ w.current = i /\ w.jumped = i
        /\ w.viewport = v.viewport /\ w.fitted = v.fitted
    BY <1>1, <2>4 DEF View
  <2>8. Scaled(w)
    BY <1>1, <2>6, <2>7 DEF Scaled
  <2>9. i # NoPage /\ i < Len(v.pages)
    BY <2>1 DEF NoPage
  <2>10. Placed(w)
    BY <2>1, <2>3, <2>7, <2>9 DEF Placed
  <2>11. WidthFits(w)
    BY <2>7 DEF WidthFits, SoundView
  <2>12. Steady(v) => Steady(w)
    BY <2>7 DEF Steady
  <2>13. QED BY <2>5, <2>8, <2>10, <2>11, <2>12 DEF SoundView
<1>4. QED BY <1>2, <1>3

\* A zoom of the user's ends the fit.
LEMMA ZoomedIsSound ==
  ASSUME NEW v, SoundView(v), NEW zoom \in Int, NEW anchor \in Int
  PROVE  LET w == SetZoomAnchored([v EXCEPT !.fit = "free"], zoom, anchor)
         IN  SoundView(w) /\ Steady(w)
<1>1. PICK u : u = [v EXCEPT !.fit = "free"]
  OBVIOUS
<1>2. u \in View /\ u.zoom = v.zoom /\ u.fit = "free"
  BY <1>1 DEF SoundView, Scaled, View, FitMode
<1>3. Scaled(u)
  BY <1>2 DEF SoundView, Scaled
<1>4. PICK w : w = SetZoomAnchored(u, zoom, anchor)
  OBVIOUS
<1>5. Scaled(w) /\ Placed(w) /\ w.fit = "free"
  BY <1>2, <1>3, <1>4, SetZoomPlaces
<1>6. SoundView(w) /\ Steady(w)
  BY <1>5 DEF SoundView, WidthFits, Steady
<1>7. QED BY <1>1, <1>4, <1>6

\* What only turns the thumbnails' rail or the picture changes nothing of this.
LEMMA TurnedIsSound ==
  ASSUME NEW v, SoundView(v), Steady(v), NEW rail \in BOOLEAN, NEW turns \in 0..3
  PROVE  LET w == [v EXCEPT !.rail = rail]
             x == [v EXCEPT !.turns = turns]
         IN  SoundView(w) /\ Steady(w) /\ SoundView(x) /\ Steady(x)
<1>1. v \in View
  BY DEF SoundView, Scaled
<1>2. ASSUME NEW w, w = [v EXCEPT !.rail = rail] \/ w = [v EXCEPT !.turns = turns]
      PROVE  SoundView(w) /\ Steady(w)
  <2>1. w \in View
    BY <1>1, <1>2 DEF View
  <2>2. /\ w.pages = v.pages /\ w.zoom = v.zoom /\ w.offset = v.offset /\ w.fit = v.fit
        /\ w.request = v.request /\ w.current = v.current /\ w.jumped = v.jumped
        /\ w.viewport = v.viewport /\ w.fitted = v.fitted
    BY <1>1, <1>2 DEF View
  <2>3. Scaled(w) /\ WidthFits(w) /\ Steady(w)
    BY <2>1, <2>2 DEF SoundView, Scaled, WidthFits, Steady
  <2>4. Placed(w)
    BY <2>2 DEF SoundView, Placed
  <2>5. QED BY <2>3, <2>4 DEF SoundView
<1>3. QED BY <1>2

LEMMA NavigatedIsSound ==
  ASSUME NEW v, SoundView(v), Steady(v), NEW action \in {"first", "last", "next", "previous"}
  PROVE  SoundView(Navigated(v, action)) /\ Steady(Navigated(v, action))
<1>1. v.pages \in Seq(Page) /\ v.current \in Nat \cup {NoPage}
  BY ViewFields DEF SoundView, Scaled
<1>2. PICK current \in Nat : current = Max({0, v.current})
  <2>1. PICK c \in Int : c = v.current
    BY <1>1 DEF NoPage
  <2>2. Max({0, c}) = IF 0 >= c THEN 0 ELSE c
    BY OfTwo
  <2>3. QED BY <2>1, <2>2
<1>3. PICK last \in Nat : last = Max({0, Len(v.pages) - 1})
  <2>1. PICK c \in Int : c = Len(v.pages) - 1
    BY <1>1
  <2>2. Max({0, c}) = IF 0 >= c THEN 0 ELSE c
    BY OfTwo
  <2>3. QED BY <2>1, <2>2
<1>4. PICK following \in Nat : following = Min({current + 1, last})
  <2>1. PICK c \in Nat : c = current + 1
    OBVIOUS
  <2>2. Min({c, last}) = IF c <= last THEN c ELSE last
    BY OfTwo
  <2>3. QED BY <2>1, <2>2
<1>5. PICK preceding \in Nat : preceding = Max({0, current - 1})
  <2>1. PICK c \in Int : c = current - 1
    OBVIOUS
  <2>2. Max({0, c}) = IF 0 >= c THEN 0 ELSE c
    BY OfTwo
  <2>3. QED BY <2>1, <2>2
<1>6. \E i \in Nat : Navigated(v, action) = ScrolledTo(v, i)
  <2>1. Navigated(v, action) =
          CASE action = "first" -> ScrolledTo(v, 0)
            [] action = "last" -> ScrolledTo(v, last)
            [] action = "next" -> ScrolledTo(v, following)
            [] action = "previous" -> ScrolledTo(v, preceding)
    BY <1>2, <1>3, <1>4, <1>5 DEF Navigated
  <2>2. CASE action = "first"
    BY <2>1, <2>2
  <2>3. CASE action = "last"
    BY <2>1, <2>3
  <2>4. CASE action = "next"
    BY <2>1, <2>4
  <2>5. CASE action = "previous"
    BY <2>1, <2>5
  <2>6. QED BY <2>2, <2>3, <2>4, <2>5
<1>7. QED BY <1>6, ScrolledIsSound

\* A page that turns, and a page taken out, leave pages.
LEMMA EditedPages ==
  ASSUME NEW pages \in Seq(Page), NEW i \in 1..Len(pages)
  PROVE  /\ [pages EXCEPT ![i].turned = ~@] \in Seq(Page)
         /\ RemoveAt(pages, i) \in Seq(Page)
<1>1. pages \in [1..Len(pages) -> Page] /\ Len(pages) \in Nat
  OBVIOUS
<1>2. PICK page : page = [pages[i] EXCEPT !.turned = ~@]
  OBVIOUS
<1>3. pages[i] \in Page
  BY <1>1
<1>4. page \in Page
  BY <1>2, <1>3 DEF Page
<1>5. [pages EXCEPT ![i].turned = ~@] = [pages EXCEPT ![i] = page]
  BY <1>2
<1>6. [pages EXCEPT ![i] = page] \in [1..Len(pages) -> Page]
  BY <1>1, <1>4
<1>7. [pages EXCEPT ![i] = page] \in Seq(Page)
  BY <1>1, <1>6
<1>8. RemoveAt(pages, i) \in Seq(Page)
  BY RemoveAtProperties
<1>9. QED BY <1>5, <1>7, <1>8

LEMMA HistoryPages ==
  ASSUME NEW pages \in Seq(Page), opened \in Documents, NEW after \in HistorySteps(pages)
  PROVE  after \in Seq(Page)
<1>1. opened \in Seq(Page)
  BY ViewStateAssumption
<1>2. ToSet(opened) \subseteq Page
  BY <1>1 DEF ToSet
<1>3. \/ \E i \in 1..(Len(pages) + 1), page \in Page : after = InsertAt(pages, i, page)
      \/ \E i \in DOMAIN pages : after = RemoveAt(pages, i)
      \/ \E i \in DOMAIN pages : after = [pages EXCEPT ![i].turned = ~@]
  BY <1>2 DEF HistorySteps
<1>4. CASE \E i \in 1..(Len(pages) + 1), page \in Page : after = InsertAt(pages, i, page)
  BY <1>4, InsertAtProperties
<1>5. DOMAIN pages = 1..Len(pages)
  OBVIOUS
<1>6. CASE \E i \in DOMAIN pages : after = RemoveAt(pages, i)
  BY <1>5, <1>6, EditedPages
<1>7. CASE \E i \in DOMAIN pages : after = [pages EXCEPT ![i].turned = ~@]
  BY <1>5, <1>7, EditedPages
<1>8. QED BY <1>3, <1>4, <1>6, <1>7

LEMMA ViewedIsSound ==
  ASSUME NEW v, SoundView(v), Steady(v), NEW action \in ViewAction
  PROVE  SoundView(Viewed(v, action)) /\ Steady(Viewed(v, action))
<1>1. /\ v \in View /\ Scaled(v) /\ Placed(v)
      /\ v.pages \in Seq(Page) /\ v.zoom \in Nat /\ v.viewport.height \in Nat
      /\ v.current \in Nat \cup {NoPage} /\ v.turns \in 0..3 /\ v.rail \in BOOLEAN
  BY ViewFields DEF SoundView, Scaled, View
<1>2. CASE action \in {"zoom_in", "zoom_out", "zoom_actual"}
  <2>1. PICK anchor \in Int : anchor = v.viewport.height \div 2
    <3>1. PICK h \in Nat : h = v.viewport.height
      BY <1>1
    <3>2. h \div 2 \in Int
      OBVIOUS
    <3>3. QED BY <3>1, <3>2
  <2>2. ASSUME NEW zoom \in Int PROVE SoundView(Zoomed(v, zoom)) /\ Steady(Zoomed(v, zoom))
    BY <2>1, ZoomedIsSound DEF Zoomed
  <2>3. StepIn(v.zoom) \in Int /\ StepOut(v.zoom) \in Int /\ Unit \in Int
    <3>1. PICK z \in Nat : z = v.zoom
      BY <1>1
    <3>2. StepIn(z) \in Int /\ StepOut(z) \in Int
      BY StepsAreZooms
    <3>3. QED BY <3>1, <3>2, PageLayoutAssumption
  <2>4. \E zoom \in Int : Viewed(v, action) = Zoomed(v, zoom)
    BY <1>2, <2>3 DEF Viewed
  <2>5. QED BY <2>2, <2>4
<1>3. CASE action \in {"fit_width", "fit_page"}
  <2>1. PICK fit \in FitMode : Viewed(v, action) = ReapplyFit([v EXCEPT !.fit = fit])
    BY <1>3 DEF Viewed, FitMode
  <2>2. PICK u : u = [v EXCEPT !.fit = fit]
    OBVIOUS
  <2>3. /\ u \in View
        /\ u.pages = v.pages /\ u.zoom = v.zoom /\ u.offset = v.offset
        /\ u.request = v.request /\ u.current = v.current /\ u.jumped = v.jumped
        /\ u.viewport = v.viewport
    BY <1>1, <2>2 DEF View
  <2>4. Scaled(u)
    BY <1>1, <2>3 DEF Scaled
  <2>5. Placed(u)
    BY <1>1, <2>3 DEF Placed
  <2>6. PICK w : w = ReapplyFit(u)
    OBVIOUS
  <2>7. SoundView(w) /\ w.fitted = w.viewport
    BY <2>4, <2>5, <2>6, RefitIsSound
  <2>8. w \in View
    BY <2>7 DEF SoundView, Scaled
  <2>9. QED BY <2>1, <2>2, <2>6, <2>7, <2>8, FittedIsSteady
<1>4. CASE action = "toggle_rail"
  <2>1. Viewed(v, action) = [v EXCEPT !.rail = ~v.rail] /\ (~v.rail) \in BOOLEAN
    BY <1>1, <1>4 DEF Viewed
  <2>2. QED BY <1>1, <2>1, TurnedIsSound
<1>5. CASE action \in {"turn", "turn_back"}
  <2>1. (v.turns + 1) % 4 \in 0..3 /\ (v.turns + 3) % 4 \in 0..3
    BY <1>1
  <2>2. \/ Viewed(v, action) = [v EXCEPT !.turns = (v.turns + 1) % 4]
        \/ Viewed(v, action) = [v EXCEPT !.turns = (v.turns + 3) % 4]
    BY <1>5 DEF Viewed
  <2>3. QED BY ZenonT(60), <1>1, <2>1, <2>2, TurnedIsSound
<1>6. CASE action \in {"first", "last", "next", "previous"}
  <2>1. Viewed(v, action) = Navigated(v, action)
    BY <1>6 DEF Viewed
  <2>2. QED BY <1>6, <2>1, NavigatedIsSound
<1>7. CASE action \in {"rotate", "delete"}
  <2>1. CASE v.current = NoPage
    <3>1. Viewed(v, action) = v
      BY <1>7, <2>1 DEF Viewed
    <3>2. QED BY <3>1
  <2>2. CASE v.current # NoPage
    <3>1. v.current + 1 \in 1..Len(v.pages)
      <4>1. v.current < Len(v.pages) /\ Len(v.pages) \in Nat /\ v.current \in Nat
        BY <1>1, <2>2 DEF Placed
      <4>2. QED BY <4>1
    <3>2. PICK i \in 1..Len(v.pages) : i = v.current + 1
      BY <3>1
    <3>3. \/ Viewed(v, action) = Adopted(v, [v.pages EXCEPT ![i].turned = ~@])
          \/ Viewed(v, action) = Adopted(v, RemoveAt(v.pages, i))
      BY <1>7, <2>2, <3>2 DEF Viewed
    <3>4. [v.pages EXCEPT ![i].turned = ~@] \in Seq(Page) /\ RemoveAt(v.pages, i) \in Seq(Page)
      BY <1>1, EditedPages
    <3>5. QED BY <1>1, <3>3, <3>4, AdoptedIsSound
  <2>3. QED BY <2>1, <2>2
<1>8. QED BY <1>2, <1>3, <1>4, <1>5, <1>6, <1>7 DEF ViewAction

-----------------------------------------------------------------------------
\* The frame

\* What every step of a frame keeps. Only the end of a frame makes the fit follow the
\* viewport.
FrameTyped ==
  /\ entry \in Nat /\ focused \in BOOLEAN
  /\ at \in Places
  /\ window \in Windows /\ opened \in Documents
  /\ drawn \subseteq Nat /\ acts \in 0..MaxActs

ViewInvariant ==
  /\ FrameTyped
  /\ SoundView(view)
  /\ at = "begin" => Steady(view)

LEMMA ViewStarts == ViewInit => ViewInvariant
<1> SUFFICES ASSUME ViewInit PROVE ViewInvariant
  OBVIOUS
<1>1. opened \in Seq(Page) /\ opened \in Documents /\ MaxActs \in Nat
  BY ViewStateAssumption DEF ViewInit
<1>2. FrameTyped
  <2>1. entry \in Nat /\ acts \in 0..MaxActs
    BY <1>1 DEF ViewInit
  <2>2. focused \in BOOLEAN
    BY DEF ViewInit
  <2>3. at \in Places /\ window \in Windows /\ opened \in Documents /\ drawn \subseteq Nat
    BY DEF ViewInit, Places
  <2>4. QED BY <2>1, <2>2, <2>3 DEF FrameTyped
<1>3. view = Opening(opened)
  BY DEF ViewInit
<1>4. Unit \in ZoomRange /\ Unit \in Nat \ {0}
  BY ZoomsAreNumbers
<1>5. view \in View
  BY <1>1, <1>3, <1>4 DEF Opening, View, Size, FitMode
<1>6. /\ view.pages = opened /\ view.zoom = Unit /\ view.fit = "free"
      /\ view.current = (IF opened = << >> THEN NoPage ELSE 0) /\ view.jumped = NoPage
      /\ view.viewport.height = 0
  BY <1>3 DEF Opening
<1>7. Scaled(view) /\ WidthFits(view) /\ Steady(view)
  BY <1>4, <1>5, <1>6 DEF Scaled, WidthFits, Steady
<1>8. opened # << >> => 0 < Len(opened)
  BY <1>1
<1>9. opened = << >> => NoPage < Len(opened)
  BY DEF NoPage
<1>10. 0 # NoPage
  BY DEF NoPage
<1>11. Placed(view)
  <2>1. view.current < Len(view.pages)
    BY <1>6, <1>8, <1>9
  <2>2. (view.current = NoPage) <=> (view.pages = << >>)
    BY <1>6, <1>10
  <2>3. QED BY <1>6, <2>1, <2>2 DEF Placed
<1>12. QED BY <1>2, <1>7, <1>11 DEF ViewInvariant, SoundView

LEMMA ActsAreBounded ==
  ASSUME acts \in 0..MaxActs, Quiet \/ Act
  PROVE  acts' \in 0..MaxActs
BY ViewStateAssumption DEF Quiet, Act

LEMMA BeginFrameKeeps ==
  ASSUME ViewInvariant, BeginFrame
  PROVE  ViewInvariant'
<1>1. SoundView(view) /\ FrameTyped
  BY DEF ViewInvariant
<1>2. FrameTyped'
  <2>1. acts' \in 0..MaxActs
    BY <1>1, ActsAreBounded DEF BeginFrame, FrameTyped
  <2>2. QED BY <1>1, <2>1 DEF BeginFrame, FrameTyped, Places
<1>3. SoundView(view')
  <2>1. CASE view' = view
    BY <1>1, <2>1
  <2>2. CASE ~(view' = view)
    <3>1. PICK zoom \in Min(ZoomSteps)..Max(ZoomSteps), anchor \in {0, view.viewport.height} :
            view' = SetZoomAnchored([view EXCEPT !.fit = "free"], zoom, anchor)
      BY <2>2 DEF BeginFrame
    <3>2. zoom \in Int
      BY <3>1
    <3>3. anchor \in Int
      BY <1>1, <3>1, ViewFields DEF SoundView, Scaled
    <3>4. QED BY <1>1, <3>1, <3>2, <3>3, ZoomedIsSound
  <2>3. QED BY <2>1, <2>2
<1>4. at' = "toolbar"
  BY DEF BeginFrame
<1>5. QED BY <1>2, <1>3, <1>4 DEF ViewInvariant

LEMMA ShowToolbarKeeps ==
  ASSUME ViewInvariant, ShowToolbar
  PROVE  ViewInvariant'
<1>1. SoundView(view) /\ FrameTyped
  BY DEF ViewInvariant
<1>2. Len(view.pages) \in Nat
  BY <1>1, ViewFields DEF SoundView, Scaled
<1>3. FrameTyped'
  <2>1. acts' \in 0..MaxActs
    BY <1>1, ActsAreBounded DEF ShowToolbar, FrameTyped
  <2>2. entry' \in Nat
    BY <1>1, <1>2 DEF ShowToolbar, FrameTyped
  <2>3. focused' \in BOOLEAN
    BY <1>1 DEF ShowToolbar, FrameTyped
  <2>4. QED BY <1>1, <2>1, <2>2, <2>3 DEF ShowToolbar, FrameTyped, Places
<1>4. SoundView(view')
  <2>1. CASE view' = view
    BY <1>1, <2>1
  <2>2. CASE ~(view' = view)
    <3>1. entry \in 1..Len(view.pages) /\ view' = ScrolledTo(view, entry - 1)
      BY <2>2 DEF ShowToolbar
    <3>2. entry - 1 \in Nat
      BY <1>2, <3>1
    <3>3. QED BY <1>1, <3>1, <3>2, ScrolledIsSound
  <2>3. QED BY <2>1, <2>2
<1>5. at' = "rail"
  BY DEF ShowToolbar
<1>6. QED BY <1>3, <1>4, <1>5 DEF ViewInvariant

LEMMA ShowRailKeeps ==
  ASSUME ViewInvariant, ShowRail
  PROVE  ViewInvariant'
<1>1. SoundView(view) /\ FrameTyped
  BY DEF ViewInvariant
<1>2. Len(view.pages) \in Nat
  BY <1>1, ViewFields DEF SoundView, Scaled
<1>3. \/ view' = view /\ entry' = entry
      \/ \E i \in 0..(Len(view.pages) - 1) : view' = ScrolledTo(view, i) /\ entry' = i + 1
  BY DEF ShowRail
<1>4. FrameTyped'
  <2>1. acts' \in 0..MaxActs
    BY <1>1, ActsAreBounded DEF ShowRail, FrameTyped
  <2>2. entry' \in Nat
    BY <1>1, <1>2, <1>3 DEF FrameTyped
  <2>3. QED BY <1>1, <2>1, <2>2 DEF ShowRail, FrameTyped, Places
<1>5. SoundView(view')
  <2>1. CASE view' = view
    BY <1>1, <2>1
  <2>2. CASE \E i \in 0..(Len(view.pages) - 1) : view' = ScrolledTo(view, i)
    <3>1. PICK i \in 0..(Len(view.pages) - 1) : view' = ScrolledTo(view, i)
      BY <2>2
    <3>2. i \in Nat
      BY <1>2
    <3>3. QED BY <1>1, <3>1, <3>2, ScrolledIsSound
  <2>3. QED BY <1>3, <2>1, <2>2
<1>6. at' = "canvas"
  BY DEF ShowRail
<1>7. QED BY <1>4, <1>5, <1>6 DEF ViewInvariant

LEMMA EndFrameKeeps ==
  ASSUME ViewInvariant, EndFrame
  PROVE  ViewInvariant'
<1>1. SoundView(view) /\ FrameTyped
  BY DEF ViewInvariant
<1>2. PICK v : v = SyncFit(view)
  OBVIOUS
<1>3. SoundView(v) /\ Steady(v)
  BY <1>1, <1>2, SyncKeepsSound
<1>4. PICK shown : shown = IF v.current # NoPage /\ ~focused THEN v.current + 1 ELSE entry
  OBVIOUS
<1>5. shown \in Nat
  <2>1. v.current \in Nat \cup {NoPage} /\ entry \in Nat
    BY <1>1, <1>3, ViewFields DEF SoundView, Scaled, FrameTyped
  <2>2. QED BY <1>4, <2>1
<1>6. /\ at' = "begin"
      /\ \/ Quiet /\ view' = v /\ entry' = shown /\ opened' = opened
         \/ /\ Act
            /\ \/ /\ \E action \in ViewAction : view' = Viewed(v, action)
                  /\ entry' = shown /\ opened' = opened
               \/ /\ \E pages \in HistorySteps(v.pages) : view' = Adopted(v, pages)
                  /\ entry' = shown /\ opened' = opened
               \/ /\ opened' \in Documents
                  /\ view' = ScrolledTo(Adopted(v, opened'), 0)
                  /\ entry' = 1
      /\ UNCHANGED <<focused, window, drawn>>
  BY <1>2, <1>4 DEF EndFrame
<1>7. FrameTyped'
  <2>1. acts' \in 0..MaxActs
    BY <1>1, <1>6, ActsAreBounded DEF FrameTyped
  <2>2. entry' \in Nat /\ opened' \in Documents
    BY <1>1, <1>5, <1>6 DEF FrameTyped
  <2>3. QED BY <1>1, <1>6, <2>1, <2>2 DEF FrameTyped, Places
<1>8. SoundView(view') /\ Steady(view')
  <2>1. CASE view' = v
    BY <1>3, <2>1
  <2>2. CASE \E action \in ViewAction : view' = Viewed(v, action)
    BY <1>3, <2>2, ViewedIsSound
  <2>3. CASE \E pages \in HistorySteps(v.pages) : view' = Adopted(v, pages)
    <3>1. PICK pages \in HistorySteps(v.pages) : view' = Adopted(v, pages)
      BY <2>3
    <3>2. opened \in Documents /\ v.pages \in Seq(Page) /\ Scaled(v)
      BY <1>1, <1>3, ViewFields DEF FrameTyped, SoundView, Scaled
    <3>3. pages \in Seq(Page)
      BY <3>2, HistoryPages
    <3>4. QED BY <3>1, <3>2, <3>3, AdoptedIsSound
  <2>4. CASE opened' \in Documents /\ view' = ScrolledTo(Adopted(v, opened'), 0)
    <3>1. opened' \in Seq(Page) /\ Scaled(v)
      BY <1>3, <2>4, ViewStateAssumption DEF SoundView
    <3>2. PICK w : w = Adopted(v, opened') /\ SoundView(w) /\ Steady(w)
      BY <3>1, AdoptedIsSound
    <3>3. QED BY <2>4, <3>2, ScrolledIsSound
  <2>5. QED BY <1>6, <2>1, <2>2, <2>3, <2>4
<1>9. QED BY <1>7, <1>8 DEF ViewInvariant

\* The view after the canvas gave it a viewport and an offset.
ShownAt(v, inner, offset) ==
  Refreshed([v EXCEPT !.request = Nowhere, !.jumped = NoPage,
                      !.viewport = inner, !.offset = offset])

\* The canvas draws what was asked for, and goes no further than the content does.
LEMMA CanvasFrame ==
  ASSUME ViewInvariant, ShowCanvas, view.pages # << >>
  PROVE  \E shown \in Nat, inner \in Size, turn \in Int, offset \in Nat :
           /\ shown = IF view.request = Nowhere THEN view.offset ELSE view.request
           /\ acts' = acts => turn = 0
           /\ turn = 0 /\ offset # shown =>
                /\ offset <= shown
                /\ ContentHeight(view.pages) * view.zoom <= offset + inner.height
           /\ view' = ShownAt(view, inner, offset)
           /\ drawn' = VisiblePages(view.pages, view.zoom, shown, inner.height, 0)
<1>1. /\ view \in View /\ view.pages \in Seq(Page) /\ view.zoom \in Nat \ {0}
      /\ view.offset \in Nat /\ view.request \in Nat \cup {Nowhere}
      /\ window \in Windows
  BY ViewFields DEF ViewInvariant, SoundView, Scaled, FrameTyped
<1>2. PICK shown \in Nat :
        shown = IF view.request = Nowhere THEN view.offset ELSE view.request
  BY <1>1
<1>3. window' \in Windows
  BY <1>1 DEF ShowCanvas
<1>4. PICK inner \in Size : inner = Inner(view, window')
  <2>1. window' \in Size /\ Bar \in Nat /\ Bar <= window'.width
    BY <1>3, ViewStateAssumption
  <2>2. window'.width - Bar \in Nat
    BY <2>1 DEF Size
  <2>3. [window' EXCEPT !.width = @ - Bar] \in Size
    BY <2>1, <2>2 DEF Size
  <2>4. Inner(view, window') \in Size
    BY <2>1, <2>3 DEF Inner
  <2>5. QED BY <2>4
<1>5. PICK content \in Int : content = ContentHeight(view.pages) * view.zoom
  <2>1. ContentHeight(view.pages) \in Nat
    BY <1>1, ContentSides
  <2>2. QED BY <1>1, <2>1
<1>6. PICK height \in Nat : height = inner.height
  BY <1>4 DEF Size
<1>7. PICK end \in Nat : end = LastOffset(view, inner.height) /\ content <= end + height
  <2>1. PICK d \in Int : d = content - height
    OBVIOUS
  <2>2. LastOffset(view, inner.height) = Max({0, d})
    BY <1>5, <1>6, <2>1 DEF LastOffset
  <2>3. Max({0, d}) = IF 0 >= d THEN 0 ELSE d
    BY OfTwo
  <2>4. QED BY <2>1, <2>2, <2>3
<1>8. PICK turn \in IF acts' = acts THEN {0} ELSE {-Scroll, 0, Scroll} :
        view' = Refreshed([view EXCEPT
                  !.request = Nowhere, !.jumped = NoPage, !.viewport = inner,
                  !.offset = Max({0, Min({shown + turn, end})})])
  BY <1>2, <1>4, <1>7 DEF ShowCanvas
<1>9. turn \in Int /\ (acts' = acts => turn = 0)
  BY <1>8, ViewStateAssumption
<1>10. PICK to \in Int : to = shown + turn
  BY <1>9
<1>11. PICK m \in Int : m = Min({to, end}) /\ m = IF to <= end THEN to ELSE end
  <2>1. end \in Int
    OBVIOUS
  <2>2. Min({to, end}) = IF to <= end THEN to ELSE end
    BY <2>1, OfTwo
  <2>3. QED BY <2>1, <2>2
<1>12. PICK offset \in Nat : offset = Max({0, m}) /\ offset = IF 0 >= m THEN 0 ELSE m
  BY OfTwo
<1>13. view' = ShownAt(view, inner, offset)
  BY <1>8, <1>10, <1>11, <1>12 DEF ShownAt
<1>14. turn = 0 /\ offset # shown =>
         /\ offset <= shown
         /\ content <= offset + height
  <2>1. content <= end + height
    BY <1>7
  <2>2. turn = 0 => to = shown
    BY <1>10
  <2>3. m = IF to <= end THEN to ELSE end
    BY <1>11
  <2>4. offset = IF 0 >= m THEN 0 ELSE m
    BY <1>12
  <2>5. QED BY <2>1, <2>2, <2>3, <2>4
<1>15. drawn' = VisiblePages(view.pages, view.zoom, shown, inner.height, 0)
  BY <1>2, <1>4 DEF ShowCanvas
<1>16. QED BY <1>2, <1>4, <1>5, <1>6, <1>9, <1>12, <1>13, <1>14, <1>15

\* What a canvas leaves of a view.
LEMMA ShownView ==
  ASSUME NEW v, SoundView(v), NEW inner \in Size, NEW offset \in Nat, NEW w,
         w = ShownAt(v, inner, offset)
  PROVE  /\ SoundView(w)
         /\ w.pages = v.pages /\ w.zoom = v.zoom /\ w.offset = offset /\ w.viewport = inner
<1>1. v \in View /\ v.zoom \in ZoomRange
  BY DEF SoundView, Scaled
<1>2. PICK u : u = [v EXCEPT !.request = Nowhere, !.jumped = NoPage,
                             !.viewport = inner, !.offset = offset]
  OBVIOUS
<1>3. /\ u \in View
      /\ u.pages = v.pages /\ u.zoom = v.zoom /\ u.offset = offset /\ u.fit = v.fit
      /\ u.viewport = inner /\ u.fitted = v.fitted /\ u.jumped = NoPage
  BY <1>1, <1>2 DEF View
<1>4. Scaled(u)
  BY <1>1, <1>3 DEF Scaled
<1>5. w = Refreshed(u)
  BY <1>2 DEF ShownAt
<1>6. /\ Scaled(w) /\ Placed(w)
      /\ w.pages = v.pages /\ w.zoom = v.zoom /\ w.offset = offset /\ w.fit = v.fit
      /\ w.viewport = inner /\ w.fitted = v.fitted
  BY <1>3, <1>4, <1>5, RefreshedPlaces
<1>7. WidthFits(w)
  BY <1>6 DEF WidthFits, SoundView
<1>8. QED BY <1>6, <1>7 DEF SoundView

LEMMA ShowCanvasKeeps ==
  ASSUME ViewInvariant, ShowCanvas
  PROVE  ViewInvariant'
<1>1. SoundView(view) /\ FrameTyped
  BY DEF ViewInvariant
<1>2. at' = "end"
  BY DEF ShowCanvas
<1>3. SoundView(view') /\ drawn' \subseteq Nat
  <2>1. CASE view.pages = << >>
    <3>1. view' = view /\ drawn' = drawn
      BY <2>1 DEF ShowCanvas
    <3>2. QED BY <1>1, <3>1 DEF FrameTyped
  <2>2. CASE view.pages # << >>
    <3>1. PICK shown \in Nat, inner \in Size, turn \in Int, offset \in Nat :
            /\ view' = ShownAt(view, inner, offset)
            /\ drawn' = VisiblePages(view.pages, view.zoom, shown, inner.height, 0)
      BY <2>2, CanvasFrame
    <3>2. SoundView(view')
      BY <1>1, <3>1, ShownView
    <3>3. view.pages \in Seq(Page) /\ view.zoom \in Nat \ {0} /\ inner.height \in Int
      BY <1>1, ViewFields DEF SoundView, Scaled, Size
    <3>4. drawn' \subseteq 0..(Len(view.pages) - 1)
      <4> DEFINE pages == view.pages
                 zoom == view.zoom
                 height == inner.height
      <4>1. pages \in Seq(Page) /\ zoom \in Nat \ {0} /\ height \in Int /\ 0 \in Int
        BY <3>3
      <4>2. drawn' = VisiblePages(pages, zoom, shown, height, 0)
        BY <3>1
      <4> HIDE DEF pages, zoom, height
      <4>3. drawn' \subseteq 0..(Len(pages) - 1)
        BY <4>1, <4>2, VisibleAreThose
      <4>4. QED BY <4>3 DEF pages
    <3>5. QED BY <3>2, <3>3, <3>4
  <2>3. QED BY <2>1, <2>2
<1>4. FrameTyped'
  <2>1. acts' \in 0..MaxActs
    BY <1>1, ActsAreBounded DEF ShowCanvas, FrameTyped
  <2>2. QED BY <1>1, <1>3, <2>1 DEF ShowCanvas, FrameTyped, Places
<1>5. QED BY <1>2, <1>3, <1>4 DEF ViewInvariant

LEMMA ViewKept ==
  ASSUME ViewInvariant, [ViewNext]_viewVars
  PROVE  ViewInvariant'
<1>1. CASE BeginFrame
  BY <1>1, BeginFrameKeeps
<1>2. CASE ShowToolbar
  BY <1>2, ShowToolbarKeeps
<1>3. CASE ShowRail
  BY <1>3, ShowRailKeeps
<1>4. CASE ShowCanvas
  BY <1>4, ShowCanvasKeeps
<1>5. CASE EndFrame
  BY <1>5, EndFrameKeeps
<1>6. CASE UNCHANGED viewVars
  BY <1>6 DEF viewVars, ViewInvariant, FrameTyped
<1>7. QED BY <1>1, <1>2, <1>3, <1>4, <1>5, <1>6 DEF ViewNext

LEMMA ViewStaysSound == ViewSpec => []ViewInvariant
<1>1. QED BY ViewStarts, ViewKept, PTL DEF ViewSpec

\* After every zoom, refit, edit, page turned and window resized, for any documents,
\* window sizes and ladder of zooms: the page that the toolbar names and an edit changes
\* is the one that covers most of the viewport, unless a jump waits for its frame.
THEOREM CurrentPageStaysInView == ViewSpec => []CurrentPageIsInView
<1>1. ViewInvariant => CurrentPageIsInView
  <2> SUFFICES ASSUME ViewInvariant PROVE CurrentPageIsInView
    OBVIOUS
  <2>1. SoundView(view) /\ FrameTyped
    BY DEF ViewInvariant
  <2>2. ViewTypeOK
    BY <2>1 DEF SoundView, Scaled, Placed, ZoomRange, FrameTyped, ViewTypeOK
  <2>3. QED BY <2>1, <2>2 DEF SoundView, Placed, CurrentPageIsInView
<1>2. QED BY <1>1, ViewStaysSound, PTL

\* For any documents, window sizes and tolerance: a view that is fitted to its width
\* stays fitted to the widest page of whatever document it shows, and to the viewport as
\* a frame begins.
THEOREM FittedWidthsStay == ViewSpec => []WidthStaysFitted
<1>1. ViewInvariant => WidthStaysFitted
  BY DEF ViewInvariant, SoundView, WidthFits, Steady, WidthStaysFitted
<1>2. QED BY <1>1, ViewStaysSound, PTL

LEMMA JumpLands ==
  ASSUME ViewInvariant, [ViewNext]_viewVars,
         at = "canvas", at' = "end", view.jumped # NoPage
  PROVE  /\ view.jumped \in drawn'
         /\ acts' = acts =>
              view.jumped \in VisiblePages(view'.pages, view'.zoom, view'.offset,
                                           view'.viewport.height, 0)
<1>1. SoundView(view)
  BY DEF ViewInvariant
<1>2. ShowCanvas
  BY DEF ViewNext, viewVars, BeginFrame, ShowToolbar, ShowRail, EndFrame
<1> DEFINE pages == view.pages
           zoom == view.zoom
           page == view.jumped
<1>3. /\ pages \in Seq(Page) /\ zoom \in Nat \ {0}
      /\ page \in 0..(Len(pages) - 1) /\ pages # << >>
  <2>1. /\ view.pages \in Seq(Page) /\ view.zoom \in Nat \ {0}
        /\ view.jumped \in Nat \cup {NoPage}
    BY <1>1, ViewFields DEF SoundView, Scaled
  <2>2. view.jumped = view.current /\ view.current < Len(view.pages)
    BY <1>1 DEF SoundView, Placed
  <2>3. Len(view.pages) \in Nat
    BY <2>1
  <2>4. view.jumped \in 0..(Len(view.pages) - 1)
    BY <2>1, <2>2, <2>3
  <2>5. view.pages # << >>
    BY <2>3, <2>4
  <2>6. QED BY <2>1, <2>4, <2>5
<1>4. /\ view.request = Top(pages, page) * zoom
  BY <1>1 DEF SoundView, Placed
<1>5. PICK shown \in Nat, inner \in Size, turn \in Int, offset \in Nat :
        /\ shown = IF view.request = Nowhere THEN view.offset ELSE view.request
        /\ acts' = acts => turn = 0
        /\ turn = 0 /\ offset # shown =>
             /\ offset <= shown
             /\ ContentHeight(pages) * zoom <= offset + inner.height
        /\ view' = ShownAt(view, inner, offset)
        /\ drawn' = VisiblePages(pages, zoom, shown, inner.height, 0)
  BY <1>2, <1>3, CanvasFrame
<1>6. /\ view'.pages = pages /\ view'.zoom = zoom /\ view'.offset = offset
      /\ view'.viewport = inner
  BY <1>1, <1>5, ShownView
<1>7. PICK height \in Nat : height = inner.height
  BY DEF Size
<1> HIDE DEF pages, zoom, page
<1>8. /\ Top(pages, page) \in Nat /\ Bottom(pages, page) \in Nat
      /\ Top(pages, page) < Bottom(pages, page)
      /\ Bottom(pages, page) <= ContentHeight(pages) /\ ContentHeight(pages) \in Nat
  BY <1>3, PagesInOrder
<1>9. PICK top \in Int, bottom \in Int, content \in Int :
        /\ top = Top(pages, page) * zoom /\ bottom = Bottom(pages, page) * zoom
        /\ content = ContentHeight(pages) * zoom
        /\ 0 <= top /\ top <= bottom /\ bottom <= content
  <2>1. Top(pages, page) * zoom \in Nat
    BY <1>3, <1>8
  <2>2. Top(pages, page) * zoom <= Bottom(pages, page) * zoom
    BY <1>3, <1>8, ScaledInOrder
  <2>3. Bottom(pages, page) * zoom <= ContentHeight(pages) * zoom
    BY <1>3, <1>8, ScaledInOrder
  <2>4. Bottom(pages, page) * zoom \in Int /\ ContentHeight(pages) * zoom \in Int
    BY <1>3, <1>8
  <2>5. QED BY <2>1, <2>2, <2>3, <2>4
<1>10. shown = top
  <2>1. top # Nowhere
    BY <1>9 DEF Nowhere
  <2>2. QED BY <1>4, <1>5, <1>9, <2>1
<1>11. ASSUME NEW from \in Nat
       PROVE  page \in VisiblePages(pages, zoom, from, height, 0)
                <=> bottom >= from - 0 /\ top <= from + height + 0
  BY <1>3, <1>9, VisibleAreThose
<1>12. page \in drawn'
  BY <1>5, <1>7, <1>9, <1>10, <1>11
<1>13. acts' = acts => page \in VisiblePages(pages, zoom, offset, height, 0)
  <2>1. acts' = acts => bottom >= offset /\ top <= offset + height
    BY <1>5, <1>7, <1>9, <1>10
  <2>2. QED BY <1>11, <2>1
<1>14. QED BY <1>6, <1>7, <1>12, <1>13 DEF page

\* For any documents, window sizes and ladder of zooms: the next frame shows the page a
\* jump asked for, and goes on showing it.
THEOREM JumpsAlwaysLand == ViewSpec => JumpsLand
<1>1. ViewInvariant /\ [ViewNext]_viewVars =>
        [at = "canvas" /\ at' = "end" /\ view.jumped # NoPage =>
          /\ view.jumped \in drawn'
          /\ acts' = acts =>
               view.jumped \in VisiblePages(view'.pages, view'.zoom, view'.offset,
                                            view'.viewport.height, 0)]_viewVars
  BY JumpLands
<1>2. QED BY <1>1, ViewStaysSound, PTL DEF ViewSpec, JumpsLand

-----------------------------------------------------------------------------
\* What a frame asks for

LEMMA Quotients ==
  ASSUME NEW a \in Nat, NEW b \in Nat \ {0}
  PROVE  a \div b \in Nat /\ (a \div b) * b <= a
OBVIOUS

\* Each thumbnail begins where it may and none reaches into the next.
LEMMA ThumbsInOrder ==
  ASSUME NEW pages \in Seq(Page)
  PROVE  /\ \A i \in 0..(Len(pages) - 1) :
              /\ ThumbTop(pages, i) \in Nat /\ ThumbBottom(pages, i) \in Nat
              /\ ThumbTop(pages, i) <= ThumbBottom(pages, i)
         /\ \A i, j \in 0..(Len(pages) - 1) : i < j => ThumbBottom(pages, i) <= ThumbTop(pages, j)
<1> DEFINE n == Len(pages)
           heights == Slots(pages)
           s == Stacked(heights, ThumbGap, ThumbGap)
<1>1. n \in Nat /\ \A i \in 1..n : pages[i] \in Page
  BY PagesOf
<1>2. \A page \in Page : ThumbHeight(page) \in Nat
  <2>1. ASSUME NEW page \in Page PROVE ThumbHeight(page) \in Nat
    <3>1. PICK a \in Nat, b \in Nat \ {0} : a = ThumbWidth * Height(page) /\ b = Width(page)
      BY SMTT(30), PageSides, PageLayoutAssumption
    <3>2. a \div b \in Nat
      BY Quotients
    <3>3. QED BY <3>1, <3>2 DEF ThumbHeight
  <2>2. QED BY <2>1
<1>3. /\ heights \in Seq(Nat) /\ Len(heights) = n
      /\ \A i \in 1..n : heights[i] = ThumbHeight(pages[i]) + ThumbLabel /\ heights[i] \in Nat
  <2>1. \A i \in 1..n : ThumbHeight(pages[i]) + ThumbLabel \in Nat
    BY <1>1, <1>2, PageLayoutAssumption
  <2>2. QED BY <1>1, <2>1 DEF Slots
<1>4. \A i : /\ ThumbTop(pages, i) = s[i + 1]
             /\ ThumbBottom(pages, i) = s[i + 1] + ThumbHeight(pages[i + 1]) + ThumbLabel
  BY DEF ThumbTop, ThumbBottom
<1> HIDE DEF n, heights
<1>5. n >= 1 => /\ s \in [1..n -> Nat]
                /\ \A i, j \in 1..n : i < j => s[i] + heights[i] <= s[j]
  BY <1>1, <1>3, StackedInOrder, PageLayoutAssumption
<1> HIDE DEF s
<1>6. ASSUME NEW i \in 0..(n - 1)
      PROVE  /\ i + 1 \in 1..n
             /\ ThumbTop(pages, i) = s[i + 1] /\ ThumbBottom(pages, i) = s[i + 1] + heights[i + 1]
             /\ s[i + 1] \in Nat /\ heights[i + 1] \in Nat
  <2>1. i + 1 \in 1..n /\ n >= 1
    BY <1>1
  <2>2. s[i + 1] \in Nat
    BY <1>5, <2>1
  <2>3. heights[i + 1] \in Nat /\ heights[i + 1] = ThumbHeight(pages[i + 1]) + ThumbLabel
    BY <1>3, <2>1
  <2>4. ThumbHeight(pages[i + 1]) \in Nat /\ ThumbLabel \in Nat
    BY <1>1, <1>2, <2>1, PageLayoutAssumption
  <2>5. QED BY <1>4, <2>1, <2>2, <2>3, <2>4
<1>7. ASSUME NEW i \in 0..(n - 1), NEW j \in 0..(n - 1), i < j
      PROVE  ThumbBottom(pages, i) <= ThumbTop(pages, j)
  <2>1. PICK k \in 1..n, l \in 1..n : k = i + 1 /\ l = j + 1 /\ k < l /\ n >= 1
    BY <1>1, <1>6, <1>7
  <2>2. s[k] + heights[k] <= s[l]
    BY <1>5, <2>1
  <2>3. QED BY <1>6, <2>1, <2>2
<1>8. \A i \in 0..(n - 1) : /\ ThumbTop(pages, i) \in Nat /\ ThumbBottom(pages, i) \in Nat
                            /\ ThumbTop(pages, i) <= ThumbBottom(pages, i)
  BY <1>6
<1>9. QED BY <1>7, <1>8 DEF n

LEMMA VisibleThumbsAreThose ==
  ASSUME NEW pages \in Seq(Page), NEW offset \in Int, NEW height \in Int
  PROVE  VisibleThumbs(pages, offset, height)
           = {i \in 0..(Len(pages) - 1) :
                ThumbBottom(pages, i) >= offset /\ ThumbTop(pages, i) <= offset + height}
<1> DEFINE n == Len(pages)
           tops == [i \in 0..(n - 1) |-> ThumbTop(pages, i)]
           bottoms == [i \in 0..(n - 1) |-> ThumbBottom(pages, i)]
           above == {i \in 0..(n - 1) : ThumbBottom(pages, i) < offset}
           begun == {i \in 0..(n - 1) : ThumbTop(pages, i) <= offset + height}
<1>1. n \in Nat
  OBVIOUS
<1>2. VisibleThumbs(pages, offset, height)
        = PartitionPoint(n, above)..(PartitionPoint(n, begun) - 1)
  BY DEF VisibleThumbs, Positions
<1>3. /\ tops = [i \in 0..(n - 1) |-> tops[i]] /\ bottoms = [i \in 0..(n - 1) |-> bottoms[i]]
      /\ \A i \in 0..(n - 1) : tops[i] = ThumbTop(pages, i) /\ bottoms[i] = ThumbBottom(pages, i)
  OBVIOUS
<1>4. /\ \A i \in 0..(n - 1) : ThumbTop(pages, i) \in Nat /\ ThumbBottom(pages, i) \in Nat
      /\ \A i \in 0..(n - 1) : ThumbTop(pages, i) <= ThumbBottom(pages, i)
      /\ \A i, j \in 0..(n - 1) : i < j => ThumbBottom(pages, i) <= ThumbTop(pages, j)
  BY ThumbsInOrder
<1> HIDE DEF n, tops, bottoms
<1>5. \A i \in 0..(n - 1) : /\ tops[i] \in Nat /\ bottoms[i] \in Nat
                            /\ tops[i] <= bottoms[i]
  BY <1>3, <1>4
<1>6. ASSUME NEW i \in 0..(n - 1), NEW j \in 0..(n - 1), i <= j
      PROVE  tops[i] <= tops[j] /\ bottoms[i] <= bottoms[j]
  <2>1. CASE i = j
    BY <1>5, <2>1
  <2>2. CASE i < j
    <3>1. bottoms[i] <= tops[j]
      BY <1>3, <1>4, <2>2
    <3>2. QED BY <1>5, <3>1
  <2>3. QED BY <1>1, <1>6, <2>1, <2>2
<1>7. Rising(n, tops) /\ Rising(n, bottoms)
  <2>1. tops \in [0..(n - 1) -> Int] /\ bottoms \in [0..(n - 1) -> Int]
    BY <1>3, <1>5
  <2>2. QED BY <1>6, <2>1 DEF Rising
<1>8. PICK high \in Int : high = offset + height
  OBVIOUS
<1>9. /\ above \in SUBSET (0..(n - 1)) /\ begun \in SUBSET (0..(n - 1))
      /\ \A i \in 0..(n - 1) : i \in above <=> bottoms[i] < offset
      /\ \A i \in 0..(n - 1) : i \in begun <=> tops[i] <= high
  BY <1>3, <1>8
<1> HIDE DEF above, begun
<1>10. \A i : i \in PartitionPoint(n, above)..(PartitionPoint(n, begun) - 1)
               <=> i \in 0..(n - 1) /\ bottoms[i] >= offset /\ tops[i] <= high
  BY <1>1, <1>7, <1>9, SearchShows
<1>11. QED BY <1>2, <1>3, <1>8, <1>10 DEF n

\* The page in focus is asked for before any other.
LEMMA FocusComesFirst ==
  ASSUME NEW visible, visible \in SUBSET Int, IsFiniteSet(visible), NEW focus \in visible
  PROVE  Head(NearestFirst(visible, focus)) = focus
<1> DEFINE Away(i) == Max({i - focus, focus - i})
           Earlier(i) == {j \in visible : Away(j) < Away(i) \/ (Away(j) = Away(i) /\ j > i)}
           plan == [k \in 1..Cardinality(visible) |->
                      CHOOSE i \in visible : Cardinality(Earlier(i)) = k - 1]
<1>1. ASSUME NEW i \in visible
      PROVE  Away(i) = IF i >= focus THEN i - focus ELSE focus - i
  <2>1. PICK a \in Int, b \in Int : a = i - focus /\ b = focus - i
    OBVIOUS
  <2>2. Max({a, b}) = IF a >= b THEN a ELSE b
    BY OfTwo
  <2>3. QED BY <2>1, <2>2
<1>2. NearestFirst(visible, focus) = plan
  BY DEF NearestFirst
<1> HIDE DEF Away
<1>3. Earlier(focus) = {}
  <2>1. Away(focus) = 0
    BY <1>1
  <2>2. ASSUME NEW j \in visible PROVE ~(Away(j) < 0) /\ ~(Away(j) = 0 /\ j > focus)
    BY <1>1
  <2>3. QED BY <2>1, <2>2
<1>4. ASSUME NEW i \in visible, i # focus PROVE focus \in Earlier(i)
  <2>1. Away(focus) = 0 /\ Away(i) > 0
    BY <1>1, <1>4
  <2>2. QED BY <2>1
<1>5. ASSUME NEW i \in visible PROVE Cardinality(Earlier(i)) = 0 <=> i = focus
  <2>1. IsFiniteSet(Earlier(i))
    <3>1. Earlier(i) \subseteq visible
      OBVIOUS
    <3>2. QED BY <3>1, FS_Subset
  <2>2. Cardinality(Earlier(i)) = 0 <=> Earlier(i) = {}
    BY <2>1, FS_EmptySet
  <2>3. QED BY <1>3, <1>4, <2>2
<1> HIDE DEF Earlier
<1>6. Cardinality(visible) \in Nat /\ Cardinality(visible) # 0
  BY FS_CardinalityType, FS_EmptySet
<1>7. plan[1] = focus
  <2>1. 1 \in 1..Cardinality(visible) /\ 1 - 1 = 0
    BY <1>6
  <2>2. plan[1] = CHOOSE i \in visible : Cardinality(Earlier(i)) = 0
    BY <2>1
  <2>3. QED BY <1>5, <2>2
<1>8. Head(plan) = plan[1]
  OBVIOUS
<1>9. QED BY <1>2, <1>7, <1>8

\* No tile is longer than a texture unless no scale is small enough.
LEMMA TilesFit ==
  ASSUME NEW page \in Page, NEW wanted
  PROVE  LET scale == FitScale(wanted, Width(page), Height(page))
         IN  scale = 1 \/ Max({Width(page), Height(page)}) * scale <= MaxTexture * ScaleUnits
<1>1. PICK longest \in Nat \ {0} : longest = Max({Width(page), Height(page)})
  <2>1. PICK a \in Nat \ {0}, b \in Nat \ {0} : a = Width(page) /\ b = Height(page)
    BY PageSides
  <2>2. Max({a, b}) = IF a >= b THEN a ELSE b
    BY OfTwo
  <2>3. QED BY <2>1, <2>2
<1>2. PICK limit \in Nat : limit = MaxTexture * ScaleUnits
  BY PageLayoutAssumption
<1> DEFINE fitting == {s \in ScaleSteps : s * longest <= limit}
           scale == FitScale(wanted, Width(page), Height(page))
<1>3. scale = IF Quantized(wanted) \in fitting THEN Quantized(wanted)
              ELSE IF fitting # {} THEN Max(fitting)
              ELSE Max({1, limit \div longest})
  BY <1>1, <1>2 DEF FitScale
<1>4. ASSUME NEW s \in fitting PROVE longest * s <= limit
  BY PageLayoutAssumption
<1>5. ASSUME fitting # {} PROVE Max(fitting) \in fitting
  <2>1. IsFiniteSet(fitting) /\ fitting \in SUBSET Int
    <3>1. fitting \subseteq ScaleSteps /\ IsFiniteSet(ScaleSteps) /\ ScaleSteps \subseteq Int
      BY PageLayoutAssumption
    <3>2. QED BY <3>1, FS_Subset
  <2> HIDE DEF fitting
  <2>2. QED BY <1>5, <2>1, Extremes
<1>6. PICK q \in Nat : q = limit \div longest /\ q * longest <= limit
  BY Quotients
<1>7. Max({1, q}) = IF 1 >= q THEN 1 ELSE q
  BY OfTwo
<1>8. longest * q <= limit
  <2>1. longest * q = q * longest
    OBVIOUS
  <2>2. QED BY <1>6, <2>1
<1> HIDE DEF fitting
<1>9. scale = 1 \/ longest * scale <= limit
  <2>1. CASE Quantized(wanted) \in fitting
    BY <1>3, <1>4, <2>1
  <2>2. CASE Quantized(wanted) \notin fitting /\ fitting # {}
    BY <1>3, <1>4, <1>5, <2>2
  <2>3. CASE Quantized(wanted) \notin fitting /\ fitting = {}
    <3>1. scale = 1 \/ scale = q
      BY <1>3, <1>6, <1>7, <2>3
    <3>2. QED BY <1>8, <3>1
  <2>4. QED BY <2>1, <2>2, <2>3
<1>10. QED BY <1>1, <1>2, <1>9

\* For any documents, zooms, ladders and limits of a texture: the searches of a frame
\* find the pages and the thumbnails that touch the viewport and no others, the current
\* page comes first, and no tile is longer than a texture unless no scale is small enough.
THEOREM FramesAskForTheVisible == ViewSpec => []FramesAskForWhatShows
<1>1. ViewInvariant => FramesAskForWhatShows
  <2> SUFFICES ASSUME ViewInvariant PROVE FramesAskForWhatShows
    OBVIOUS
  <2> DEFINE pages == view.pages
             zoom == view.zoom
             from == view.offset
             height == view.viewport.height
             reach == height \div 2
             Fits(page, scale) ==
               scale = 1 \/ Max({Width(page), Height(page)}) * scale <= MaxTexture * ScaleUnits
  <2>1. /\ pages \in Seq(Page) /\ zoom \in Nat \ {0} /\ from \in Nat /\ height \in Nat
    BY ViewFields DEF ViewInvariant, SoundView, Scaled
  <2>2. reach \in Int
    <3> HIDE DEF height
    <3>1. QED BY <2>1
  <2>3. Planned(view) = VisiblePages(pages, zoom, from, height, reach)
    BY DEF Planned
  <2> HIDE DEF pages, zoom, from, height, reach
  <2>4. Planned(view)
          = {i \in 0..(Len(pages) - 1) :
               Touches(Top(pages, i) * zoom, Bottom(pages, i) * zoom,
                       from - reach, from + height + reach)}
    BY <2>1, <2>2, <2>3, VisibleAreThose DEF Touches
  <2>5. ASSUME view.current \in Planned(view)
        PROVE  Head(NearestFirst(Planned(view), view.current)) = view.current
    <3>1. PICK n \in Nat : n = Len(pages)
      BY <2>1
    <3>2. Planned(view) \subseteq 0..(n - 1) /\ 0..(n - 1) \in SUBSET Int
      BY <2>4, <3>1
    <3>3. IsFiniteSet(0..(n - 1))
      BY FS_Interval
    <3>4. IsFiniteSet(Planned(view)) /\ Planned(view) \in SUBSET Int
      BY <3>2, <3>3, FS_Subset
    <3>5. QED BY <2>5, <3>4, FocusComesFirst
  <2>6. ASSUME NEW k \in 0..(Len(pages) - 1), NEW past \in {0, 1}
        PROVE  LET offset == ThumbBottom(pages, k) + past
               IN  VisibleThumbs(pages, offset, ThumbWidth)
                     = {i \in 0..(Len(pages) - 1) :
                          Touches(ThumbTop(pages, i), ThumbBottom(pages, i),
                                  offset, offset + ThumbWidth)}
    <3>1. PICK offset \in Int : offset = ThumbBottom(pages, k) + past
      <4>1. ThumbBottom(pages, k) \in Nat
        BY <2>1, ThumbsInOrder
      <4>2. QED BY <4>1
    <3>2. ThumbWidth \in Int
      BY PageLayoutAssumption
    <3>3. VisibleThumbs(pages, offset, ThumbWidth)
            = {i \in 0..(Len(pages) - 1) :
                 Touches(ThumbTop(pages, i), ThumbBottom(pages, i),
                         offset, offset + ThumbWidth)}
      BY <2>1, <3>2, VisibleThumbsAreThose DEF Touches
    <3>4. QED BY <3>1, <3>3
  <2>7. ASSUME NEW page \in ToSet(pages)
        PROVE  Fits(page, CanvasScale(page, zoom)) /\ Fits(page, ThumbScale(page))
    <3>1. page \in Page
      BY <2>1, PagesOf DEF ToSet
    <3>2. QED BY <3>1, TilesFit DEF CanvasScale, ThumbScale
  <2>8. QED BY <2>4, <2>5, <2>6, <2>7 DEF FramesAskForWhatShows, pages, zoom, from, height, reach
<1>2. QED BY <1>1, ViewStaysSound, PTL
=============================================================================
