# A verification of opdf

opdf is a PDF page editor written in Rust: a desktop application, a command
line and six crates underneath. This directory holds TLA+ models of the parts of
it that are hard to test, the TLC configurations that check them on small
instances, and theorems that TLAPS proves for instances of any size.

Everything is translated from the code under `src/`. `PROJECT.json` lists, for
every definition that models code, the lines it stands for.

## The system

| Part | Code | State it keeps | Operations |
|---|---|---|---|
| Page map and document | `opdf-pdf/src/page_map.rs`, `document.rs` | mapped slots in order, trash, identity allocator, revision, dirty flags | remove, restore, move, rotate, insert, import, export, purge |
| Undo history | `opdf-ops/src/undo_stack.rs` and one file per command | two stacks of inverse commands, a limit | apply, undo, redo, clear |
| Composite commands | `opdf-ops/src/sequence.rs`, `binding.rs`, `import_pages.rs`, `extract.rs`, `merge.rs`, `split.rs` | none between calls | apply with rollback, inverses bound to a document |
| Render service | `opdf-render/src/service.rs`, `worker.rs`, `backlog.rs`, `cache.rs` | two channels, worker position, backlog, snapshot, tile cache, the handle's outbox | submit, rebind, poll, drop; the worker's loop |
| Pdfium access | `opdf-render/src/library.rs`, `geometry.rs`, `raster.rs` | the library, loaded once; a process-wide lock | open, render, close, `with_pdfium` |
| Viewer | `opdf-app/src/viewer.rs`, `scheduler.rs`, `tiles/`, `panels/` | snapshot drawn, one tile cache per surface with its pending and refused requests | one frame: exchange with the service, draw rail, draw canvas |
| Layout, zoom and view state | `opdf-app/src/layout.rs`, `zoom.rs`, `viewer.rs`, `panels/` | zoom, scroll offset, current page, fit mode, the viewport they were fitted to | zoom, fit, jump, scroll, resize; the frame that applies them |
| Application shell | `opdf-app/src/app.rs`, `opener.rs` | document, its path, saved revision, undo stack, two pending questions | open, close, quit, generate, edit, undo, redo, save, save as, compact |
| Saving | `opdf-pdf/src/save.rs`, `objects.rs`, `geometry.rs` | bytes opened from, objects to append, slots | incremental save, compacting save, copy of object graphs |
| Command line | `opdf-cli/src` | none but the files | merge, split, rotate, extract; page ranges |
| Fakes and contract suites | `opdf-core/src/fakes/`, `opdf-core/src/contract/` | an in-memory document, an in-memory render service | the two traits |

How the parts talk to each other:

- The shell owns the document, the undo stack and the render service. An edit is
  a command applied through the undo stack; the shell then takes a new snapshot
  of the document and gives it to the viewer.
- The viewer and the rail submit requests to one service and share one poll per
  frame. A request names page, revision and scale; answers are routed by which
  cache has the request pending.
- The service runs Pdfium on a thread of its own, on the *file*; the snapshot it
  was given says how pages are turned. Handle and worker share nothing but two
  channels. The workers of several services share Pdfium, one call at a time.
- A save writes the document's pending changes. A compacting save also replaces
  the bytes the document continues from, which purges the trash, so the shell
  clears the history.
- The command line uses the same document and operations, without a history, and
  shares files with whatever else runs.
- Interface and commands are developed and tested against the fakes.

What makes it hard: stored inverses are applied to a document many commands
later; answers arrive after the edit that made them obsolete; requests are
coalesced, superseded and refused; the worker may fail to open the file, die or
be dropped at any point; every write and dialog may fail; files are rewritten in
place, by processes that may be killed; zoom, viewport and scroll bars depend on
each other across frames; and three different mechanisms (revision numbers, dirty
flags, the trash) must agree about what a file holds.

What makes each part correct, in one line each:

- *Page map*: an identity names one page forever.
- *History*: undo and redo show exactly the pages that were there before.
- *Composite commands*: all or nothing, and undone only where they were done.
- *Render service*: every request is answered once, with the picture it names.
- *Pdfium access*: one thread at a time, destructors included; nobody waits forever.
- *Viewer*: nothing stale stays, nothing wanted stays missing.
- *View state*: the current page is the one in view, a fit holds, the view rests.
- *Shell*: unsaved work is lost only by choice, and "saved" is true.
- *Saving*: a file reopens as what the user saw, and copies are whole.
- *Command line*: what is typed is what happens, to the files it names.
- *Fakes*: what holds of a fake holds of the real thing.

## The modules

| Module | What it is | Extends |
|---|---|---|
| `PageMap` | the document as a record, each mutation as a guard and an operator | |
| `Timeline` | abstract specification: a line of states and a cursor | |
| `Commands` | the one-page commands and their inverses | `PageMap` |
| `EditHistory` | document and undo stack, implements `Timeline` | `Commands` |
| `CompositeCommands` | sequences with rollback, imports and splits between documents | `Commands` |
| `DocumentCalls` | the vocabulary of the `Document` trait: calls and answers | |
| `VecDocument` | the in-memory fake, call by call | `DocumentCalls` |
| `PdfDocument` | the real document, call by call | `PageMap`, `DocumentCalls` |
| `DocumentContract` | abstract specification: what the trait's documentation promises, and the contract suite | `DocumentCalls` |
| `DocumentTwins` | fake and real document under the same calls, both against `DocumentContract` | `PdfDocument` |
| `RenderContract` | abstract specification: what a caller of a render service is promised | |
| `RenderService` | handle, channels, worker: state and actions, no next-state relation | `PageMap` |
| `RenderSession` | the service with a caller that follows its documentation, implements `RenderContract` | `RenderService` |
| `TileGeometry` | how a request becomes a tile, in both renderers | |
| `PdfiumLibrary` | several services over one locked library | `TileGeometry` |
| `RenderTwins` | these services beside their fakes, against the render contract suite | `PdfiumLibrary` |
| `Viewer` | the service with the application's frame loop and two surfaces | `RenderService` |
| `PageLayout` | placement, visible ranges, zoom ladder, raster scales: arithmetic | |
| `ViewState` | what the viewer shows, frame by frame | `PageLayout` |
| `AppShell` | the shell against the files on disk | |
| `PdfSave` | document, page objects and the two saves | `PageMap` |
| `PageObjects` | the object graph of a file as it is read | |
| `PageImport` | the copy of pages between object graphs, object by object | `PageObjects` |
| `CommandArgs` | the scan of a command line, page ranges | |
| `CommandLine` | processes that run such lines over shared files | `CommandArgs` |
| `PageMapProofs`, `EditHistoryProofs`, `CompositeProofs`, `AppProofs`, `RenderTwinsProofs`, `CommandLineProofs`, `PdfSaveProofs`, `RenderProofs` | lemmas and theorems; `AppProofs` is about `AppShell`, `PageLayout` and `ViewState` | the modules they are about, `TLAPS` |
| `MC...` | one per component, for TLC | |

`PageMap` has no variables of its own: the document is a value that each of
the components above changes through the same operators, as the code's callers do
through `PdfDocument`. `DocumentContract` takes an implementation as operator
constants (`Do`, `View`, `Made`), so `DocumentTwins` instantiates it twice.

A definition whose comment begins with "Faulty variant" or "slip" is not part of
any specification. It is the definition below it with a plausible mistake, kept
because a property is only worth its run if such a mistake breaks it.

### PageMap, Commands and EditHistory

Positions count from 0 as in the code, sequences from 1. A slot keeps identity
and rotation; page sizes never change after a page exists and are left out
(`PdfDocument` has them). The trash is a set, because `PageMap` looks removed slots
up by identity. Mutations come in pairs, `CanRemove`/`RemovePage` and so on: the
guard is what the code checks before it changes anything; a rejected call is no
step.

`EditHistory!Apply`, `Undo`, `Redo` are the three methods of `UndoStack`, each
with the command's own call inside. The library also lets a caller restore a page
by hand, so `ApplyRestore` is there. Failing entries are pushed back by the code
and change nothing: `NextEntryApplies` shows that this never happens. `Compact`
and `InstallDocument` are what `OpdfApp` does to document and history together.

`timeline` is an auxiliary variable. It makes the refinement mapping trivial
(`Line` maps it to lists of slots) and moves the work to where it belongs: the
invariant `EntriesReplayTimeline`, which says what every queued entry, not just
the next one, does.

### CompositeCommands

Several documents, whose identities all count from 0, and at most one running
`Sequence`. The code runs a sequence in one call; here every command of it is a
step, `ApplyNext`, so that it can be refused after any number of them, and then
every inverse is a step of `RollBack`. What the caller put in the sequence is
chosen as it runs: `delete_selection` and `rotate_selection` are special cases,
dead and repeated identities included. `ImportSelection`, `Merge`, `ExtractRange`
and `SplitAt` hand back inverses as the code builds them, each in its own order
of removals. `kept` holds the latest of them with the document it is bound to;
`ApplyKept` applies it, which makes it the redo, and so on; a bound one may be
handed any document. Merging and extracting are each several calls on documents
and at most one of them can be refused, before anything has changed, so they are
one step. The copy of a page's objects is `PageImport`'s.

### DocumentCalls, VecDocument, PdfDocument, DocumentContract, DocumentTwins

A call is a record and an outcome is an answer with the document it leaves, so
that "whatever is called next" is a quantifier over calls. `VecDocument` and
`PdfDocument` translate every method of their `impl Document`, with the order of
their checks, because the order decides which error a doubly wrong call gets.
`DocumentContract!Promised` is the documentation of `opdf-core/src/document.rs`,
`Suite` every assertion of `opdf-core/src/contract/document.rs`. The suite makes
each of them once, of a document it has just built; here they are made of any
document the two twins reach.

Two documents of each kind are open, one the source of imports. A carrier
(`PortablePages`) is held while both documents change, and may be handed to the
other implementation, which refuses it. The properties try every next call, while
the behaviours that lead to the state are bounded by `MaxEdits`. That no two
documents share an identity is assumed by `Init`, as `DocumentId::next` is a
process-wide counter.

### RenderService and RenderSession

One action per message and per way of answering. The worker's position is
`phase`; `accepting` stands for both receives of `serve_requests`, which takes
everything from the channel before it answers one request, so `StopAccepting`
needs an empty inbox. (`try_iter` may also return with a message that arrived in
the same instant; this is the order in which the message arrives a moment later.)
Rasterizing is one step that always ends. A handle may be dropped in every phase.
`Panic` is the end of the thread at an arbitrary point, the case the handle's
outbox exists for.

A tile is `[place, rotation]`: where in the file its content came from and how it
was turned, the two things that go wrong. A scale is a number equal to the bytes
its tile takes, so that the cache's budget is arithmetic on scales. The document
identity a request carries is left out: a service is opened for one document and
replaced with it.

`RenderSession` adds a caller that does what `service.rs` asks of it: rebind after
each edit, submit at the current revision. It may ask for removed pages and for
pages that are not in the file, and it may stop polling.

### TileGeometry, PdfiumLibrary, RenderTwins

What `RenderService` takes for one step is here several: a worker waits for the
lock, is inside of Pdfium, is out again, when it opens its document, renders a
page and closes the document, and any other thread does the same through
`with_pdfium`. The order in which a service answers is `RenderService`'s; here a
worker takes one request after the other. The `Mutex` is the standard library's
and unfair: any waiting thread may get it. A panic poisons it, and the next thread
takes it regardless, as `lock_pdfium` does. A worker that panics takes the requests
it has received with it.

`InPdfium` is who is in Pdfium *in fact*, which the lock does not tell: Rust runs
destructors when a scope ends, and `run_worker` closes its document under the lock
only because it does so explicitly (`close_document`). The one case where it does
not: a panic while a page is rendered unwinds `run_worker`, whose
document outlives the guard of the render and closes unlocked, contrary to
`library.rs:109` ("Every call into Pdfium must hold this"). `CallsDoNotOverlap`
names this thread as its exception.

Every request put to a service is put to a `FakeRenderService` over the same
pages. Tiles are width, height and the rotation the picture has, computed in
fixed point: a scale is a multiple of `1/Unit`. The fake multiplies in `f32` and
the real renderer in `f64`, which is left out. The limits of a tile are constants;
the real ones exceed the integers TLC has, so the run scales them down.

### Viewer

A frame of `OpdfApp::draw` is three actions, between which the worker runs:
`StepRenderService`, `ShowThumbnailRail`, `ShowCanvas`. User actions come between
frames, as `apply_action` runs last in a frame. `EditDocument` does not rebind
because nothing in `opdf-app` does. All pages are visible on both surfaces, the
rail is shown, and the plan of a frame may put requests in any order, which covers
every scroll position of a document that short. `Scales` stands for the pairs of
zoom and view rotation. The rail's own eviction finds only entries used in the
same frame and is therefore no step.

### PageLayout and ViewState

The other half of the viewer: which pages, where, how large. Lengths are whole
points, a zoom is a whole number of units, and a length on screen is counted in
dots, of which a point takes as many as the zoom has units. This keeps the
comparisons of `layout.rs` and `zoom.rs` exact; the rounding of `f32` is left out.

A frame is five steps in the order of `draw`: `BeginFrame` (the wheel zooms),
`ShowToolbar` (the page field), `ShowRail` (a click on a thumbnail), `ShowCanvas`
(draws at the requested offset, then takes scrolling and a new window size) and
`EndFrame`, which refits, lets the page field follow, and applies the action a menu,
key or button asked for, edits and other documents included. The user may act in
several steps of one frame. The scroll area is egui's; the model takes from it that
the offset is kept within the content, and that a bar takes `Bar` of the width when
the content is higher than the window. `Bar` is within `Tolerance`, as
`viewer.rs:26` claims of the real ones.

`FitMode::Page` is reapplied when the viewport or the pages change and not when
the current page does, so there is no counterpart of `WidthStaysFitted` for it. A
view rotation turns tiles and does not change the layout. After a jump to a page
too short to reach the top, the offset is clamped, and the current page is
again the one that covers most of the viewport: `JumpsLand` promises that the page
named is visible, not that it stays current.

### AppShell

Contents are numbers. An edit makes a new number, undo returns to an old one, a
file holds one, nothing, or something unreadable. Dialogs may be cancelled and
writes fail in three ways: before the file is touched, leaving it damaged, or
after it was written. `service` records which file the current document's render
service reads and what that file held when the service opened it.

While a question is shown egui's `Modal` keeps the pointer and the focus away
from the panels behind it; the keyboard shortcuts that remain (`collect_keyboard_action`)
only zoom and scroll. So the menu actions are enabled only while `Listening`. The
window's close button is outside of egui and always works.

### PdfSave

A file is its page objects, the pages its tree reaches, the root's `/Rotate`, and
what else names a page: `named` are the pages the catalog leads to (outline, named
destinations, form fields, structure tree), `links` those a page's annotations name,
and `kin` those below the same intermediate node, which a page reaches through its
`/Parent`. A page may carry its own `/Rotate` or inherit one from an intermediate node
or from the root. `Shapes` are the files a user may open, `Imports` what the pages of
other documents bring along; a run enumerates some, the theorems hold of any. `update` is what lopdf's incremental
document would append, and stays filled after a save, successful or not. `/Rotate`
stands for the four inheritable attributes because it is the one an edit changes;
it is written by two passes. One intermediate node per page is enough, as
`find_inherited_attribute` takes the nearest value on the way up. `disk` is the
last file written, with what the user saw at that moment.

`Compacted` is `build_compacted_document` with lopdf's two passes: `Reached` is what
`prune_objects` keeps, the least set of pages that has all the trailer names and all
its own pages name, and `Numbering` what `renumber_objects` does, references following
their objects. So a removed page that something still names is in the compacted file,
and `Rebase` goes on from that file. `rewrite_page_tree` hangs the document's own pages
from the root and leaves the old nodes as they are, so a removed page still reaches its
former neighbours. `RebaseFails` is a compacting save whose file is written before
`rebase_onto` refuses it: the disk has the new file, the document is unchanged but for
its update.

### PageObjects and PageImport

An object is a reference, an atom or a dictionary; the items of arrays, streams
and direct dictionaries count as entries of the dictionary around them. `Visit` is
one iteration of the walk of `copy_page_into`, `WriteCopy` one of its second loop;
`BeginCopy` the start of a page in `import_pages`. `IsCopied` is the test both loops make
before they follow a reference. `copy_page_into` never returns
`None` here, since the slots it is given come from lopdf's own page iteration.

The walk stops at nodes of page trees. References to them, under `/Parent` or as
links to other pages, are left as they are (`objects.rs:119`), so that a link to a
page that is not copied keeps the source's number, under which the target may have
any object at all. `CopiesAreWhole` says exactly which references these are. An
attribute the original had from nowhere may be inherited from the target's root. One
that leads to a missing object or to a page tree node keeps that number too, so it may
read as something else in the target; `TakenAlong` is the condition under which it
does not.

### CommandArgs and CommandLine

The texts of a line are a finite set; constants say which are flags, which have the
form `--name=value` and which are numbers cut at commas and dashes. `Scanned` is
the scan of `args.rs` item by item and `Parsed` the whole of it; `Resolved` and
`ContiguousRuns` are the selection of `range.rs`.

A process of the program is its steps on files: `Enter`, `Dispatch`, `Guard` per
output, `Open` per input, `Operate`, and two steps per file that is written, since
`std::fs::write` empties the file and then fills it. Between any two steps the
other process runs, the write fails or the process is killed. A document on disk
is its pages and the pages its bytes hide, so that "extract leaves nothing of the
rest" is a statement about contents. What an input's objects name is not part of it:
when a document with hidden pages is compacted, `Operate` leaves open which of them
`prune_objects` finds named (`Nameable`). Merge, extract and the second half of a split
start from an empty document, so they hide nothing whatever is named.

## What is checked

Bounds are constants of the configurations. Every bound of a counter is named
`Max...` in the module that uses it.

### Runs that pass

**edit_history**: two-page documents, two rotations, limit 2, three identities,
revisions modulo 2 (about 200 000 states; the run is finite without further
bounds, because undo and redo walk in circles). Two pages and one inserted page are
the smallest document in which moving, removing and restoring interfere; limit 2
is reached and overflown; modulo 2 is the harshest wrap-around under which a
mutation still changes the revision.

- `PageIdentity`: an identity names one page, mapped or trashed.
- `PagesAccountedFor`: no step but a compaction or another document gives a page
  up, and a retired identity never comes back.
- `HistoryOK`: types, and the claim of `UndoStack`'s documentation about its limit.
- `NextEntryApplies`, `EntriesReplayTimeline`: stored inverses.
- `WalksTimeline`: refinement of `Timeline`.

**composite**: two documents of one or two pages, three identities, two
rotations, of which pages are opened with the first (`Turns`); a caller's sequence
has up to two accepted commands and may be refused before, between or after them,
there are two changes, and the kept inverse is applied any number of times. Two
accepted commands before a refusal are the least for which the order of the
rollback matters; two changes let an import, a split or a failed sequence come
before the one that is undone.

- `AllOrNothing`: a refused sequence leaves pages, order and rotations as they
  were, and no rollback is refused.
- `KeptInverseRestores`: the kept inverse, replayed at any later moment, is
  accepted and brings back the pages, whether it is an undo or a redo; copies get
  identities of their own.
- `InverseStaysHome`: bound inverses change no other document.

**document_twins**: pairs of documents made with up to two pages, three accepted
edits (imports into either document among them), carriers of at most one page;
from every state reached, every next call with lists of up to two identities,
repeated and unknown ones included, and positions up to one past the end of
every document. Every argument the code distinguishes is among them, and a third
edit can act on a page that was removed or imported and moved.

- `TwinsAnswerAlike`: same pages, same retained pages, same revision, and the
  same answer to every call.
- `BothKeepTheContract`: the documentation of the trait and each assertion of the
  contract suite hold of both, whatever was called before.

**render_session**: two pages, two rotations, one scale, backlog of 1, cache for
one tile, one edit, three requests under way. A backlog of 1 makes every second
request supersede one; a cache of one tile evicts on every insertion; three
requests are enough for two equal ones and a third to overtake them.

- `TilesMatchRequests`: no tile shows another page's content or another
  revision's rotation than its request names.
- `KeepsContract`: refinement of `RenderContract`, no answer lost or invented.
- `NobodyWaitsForever`: a caller that has gone quiet is answered, an abandoned
  worker ends.

**render_twins**: two services and one other thread share the library; four pages
(a tall one, a sliver that is turned, a large one, a damaged one) with all
rotations between them, pages turned by 270 degrees in the file; five requests,
among them a foreign one, one past each limit, one for an unknown page; one
request under way per service. Two services and a guest are the fewest for which
three threads compete for the lock. Symmetry is not used because of the liveness
property.

- `CallsDoNotOverlap`: no two threads inside of Pdfium, but for one that unwinds.
- `NobodyHangs`: `open` returns and a dropped worker ends.
- `RenderersAgree`: the real answer is the fake's, but for the limits and failures
  the property names (`geometry.rs`: "The two renderers do not fail identically").
- `SuitePasses`: the contract suite, of every answer.

**viewer**: two pages of which Pdfium refuses one, two scales, two user
actions (edits and changes of zoom together, `MaxActs`), one submission per frame,
a backlog of 2. Two actions are enough for an edit while the answers to an earlier
zoom are still on their way. One rotation only: that pictures are
turned wrongly after an edit is a finding of its own, below.

- `CachesFollowSnapshot`: neither cache keeps anything of an older revision, and
  no request is two of cached, pending, refused.
- `CanvasAwaitsLiveRequests`: what is pending is really under way.
- `CanvasSettles`: with the user quiet every page ends up drawn or refused.

**view_state**: no document, one of two pages of different sizes, one of a single
page higher than the window; two windows, one wide and low; zooms 50 % to 200 %;
four acts of the user, any number of quiet frames. A fit needs one act, and three
more let an edit, another document and a new window come between it and the
frame that refits.

- `CurrentPageIsInView`: the page an edit would act on is the one the user sees.
- `WidthStaysFitted`, `ViewSettles`: a fit holds through everything else, and the
  refits it causes come to an end.
- `FramesAskForWhatShows`: the two binary searches find exactly what touches the
  viewport, the current page first, at a scale whose tile is a legal texture.
- `JumpsLand`: the frame after a jump draws the page that was named.

**app_shell**: two files (symmetric), four contents, four mutations: enough for an
edit, a save, an undo behind the saved state and another edit.

- `CleanMeansOnDisk`: no unsaved changes means the file holds the document, or a
  failed write damaged it.
- `ShellCoherent`: history and questions never outlive what they are about.
- `WorkLostOnlyByChoice`: an unsaved document that no file holds is parted with
  only through the three actions the property names.

**pdf_save**: all files of two pages over two rotations with one intermediate
level in which only the page tree names pages (243 of them), and four in which links, the
catalog or a shared node do; imported pages with any key, one of which kept the number
of a page it links to; three identities, two mutations before the first compaction, one
between any two later ones, and any number of saves, failed ones included (845 000
states). Whatever two mutations do to each other they do to the opened file; what a
compaction leaves behind for a later edit, be it a given-up page or a renumbered
object, shows with one, after which the next compaction allows another.

- `SavedFileReopensAsShown`: the point of saving. Blank pages are excepted, see
  below.
- `CleanMatchesBase`, `ObjectsFollowPages`: dirty flags, trash and compaction agree
  with the bytes. `GivenUpPagesAreNamed`, its second half, is about what compaction
  drops: whatever set of given-up pages a file still has, something in the file that
  is not among them names one of them. So none is there on its own, and no ring of them
  keeps itself; this holds of the compacted file and of every update appended to it.
  It is all that pruning does: see the disagreements below.

**page_import**: 360 source graphs of six objects (a root, an intermediate node
that may be its own parent, two pages, two shared objects that may refer to each
other, themselves, a page or nothing; contents, links and inheritable attributes may
name an object there is not), imports of up to two pages, a target whose
object numbers overlap. Chains of parents and references are cut after 3 instead
of 64 and 32.

- `CopiesAreFaithful`: a copy is complete, private, and read as its original in every
  attribute that could be taken along, broken ones excepted.
- `ImportEnds`: whatever cycles there are.

**command_line**: two processes with one command each over three files that may be
missing, damaged or documents, one with two spellings. The first process has
every order of the five items of an extraction, the misuses `args.rs` and its
tests know, and working lines of all subcommands; the second what it may do
meanwhile.

- `LinesAreUnderstood`: every item of an accepted line is accounted for.
- `SuccessIsWhatWasAsked`: exit code 0 means the files hold exactly the named pages, and
  behind them at most what `Behind` lists: what the input hid already, and in a first
  half pages of the second.
- `FilesChangeOnlyAsNamed`: other files stay as they were, and refusals touch none.

Deadlock is checked for `edit_history`. The others may really stop: the
window is closed, the worker is gone, or a bound is exhausted.

### A run that shows a disagreement

**viewer_rotation** checks `RotationShows`, which states `worker.rs:275` "an
unsaved rotation shows immediately". TLC finds the behaviour: the application
never rebinds the service, so the page is drawn as the file has it.

### Other disagreements between code and comments

Met while modelling; the models follow the code, and the properties name these
cases as exceptions.

- `texture.rs:94` says no cache's requests "stay pending forever". Both surfaces
  may ask for the same tile, the backlog merges the two, and the canvas gets the
  only answer (`texture.rs:120`): the rail's copy stays pending.
- `tiles/cache.rs:154` calls a refusal "a permanent condition". A request the
  backlog superseded (`worker.rs:235`) is recorded as refused all the same.
- `app.rs:435` says "Every route out of a document goes through here". Generating a
  document and the window's close button do not.
- `worker.rs:129` says the file "never changes while the worker runs". A save
  (`app.rs:285`) rewrites it.
- `objects.rs:192` says a blank page "depends on nothing it might inherit". It
  inherits `/Rotate` from the root node.
- `library.rs:109` says that every call into Pdfium holds the lock. A worker that
  panics while rendering closes its document without.
- `save.rs:207` says that pruning "drops every removed page's objects from the written
  file", and `save.rs:139` and `docs/architecture/contracts.md:503` that it drops what
  the page tree does not reach. `prune_objects` (`save.rs:152`) keeps all that the
  trailer reaches: a removed page that an outline entry, a named destination, a form
  field or a link of another page names is in the compacted file and in every update
  appended to it. An invariant that no given-up page is in a later file fails in PdfSave
  as soon as something names a page: link, remove, compact.
- `run.rs:21` says of a split that half A must not "ship the whole of half B inside it".
  It is compacted, so it does not ship the whole, but it ships the pages of half B that
  anything in it names. An invariant that neither half hides pages fails in CommandLine
  with one process and one split; `SuccessIsWhatWasAsked` allows these pages and no
  others.
- `objects.rs:122` says of references to what was not copied that "the caller overwrites
  them". The caller overwrites `/Parent`. A `/MediaBox` that names a missing object keeps
  its number, under which the target has an object of its own or gives one to the next
  copy. An invariant that every attribute reads as in the source fails in PageImport;
  `CopiesAreFaithful` excepts the attributes that could not be taken along.
- A split whose two outputs are two spellings of one file passes the check of
  `run.rs:129` and loses its first half.

### Fairness

- `WF_vars(Work)`, `WF_serviceVars(Worker)`: the worker is an operating-system
  thread that is never blocked by anything but its empty channel, and a step of
  it that is possible stays possible until it is taken. `Panic`, submissions,
  edits, polls and drops have no fairness.
- Viewer: a frame that was asked for begins: egui runs one after
  `request_repaint`, which `step_render_service` calls while anything is pending or
  did not fit (`RepaintRequested`); the first frame is always drawn. The remaining
  two steps follow as parts of the same call of `draw`. `UserActs` has none, and
  the properties say what holds once the user pauses; with a bounded number of
  actions the user always does in the end.
- ViewState: a step of `draw` always comes next (`WF_at`), as a frame that has
  begun is finished and further frames change nothing once the view rests.
- RenderTwins: threads run, `open` returns once the worker reported, and a guest
  that asked for the library goes through with it. Weak fairness of a thread that
  waits for the lock says nothing while the others keep taking it, which is all a
  standard-library mutex promises: `NobodyHangs` is excused by a lock that is
  taken again and again forever, and by nothing else. Nothing makes an owner
  submit, poll or drop.
- PageImport: the call runs to its end.

## What is proved

TLAPS checks, for every value of the constants:

| Theorem | Property | Module |
|---|---|---|
| `HistoryHolds` | `HistoryOK` | `EditHistoryProofs` |
| `PageIdentityHolds` | `PageIdentity` | |
| `EntriesReplay` | `EntriesReplayTimeline` | |
| `HistoryNeverRefused` | `NextEntryApplies` | |
| `HistoryWalksTimeline` | `WalksTimeline` | |
| `NoPageIsLost` | `PagesAccountedFor` | |
| `SequencesAreAtomic` | `AllOrNothing` | `CompositeProofs` |
| `InversesStayHome` | `InverseStaysHome` | |
| `CompositeTypes` | `TypeOK` | |
| `KeptInversesRestore` | `KeptInverseRestores` | |
| `ShellStaysCoherent` | `ShellCoherent` | `AppProofs` |
| `CleanDocumentsAreOnDisk` | `CleanMeansOnDisk` | |
| `WorkIsLostOnlyByChoice` | `WorkLostOnlyByChoice` | |
| `CurrentPageStaysInView` | `CurrentPageIsInView` | |
| `FittedWidthsStay` | `WidthStaysFitted` | |
| `JumpsAlwaysLand` | `JumpsLand` | |
| `FramesAskForTheVisible` | `FramesAskForWhatShows` | |
| `PdfiumCallsNeverOverlap` | `CallsDoNotOverlap` | `RenderTwinsProofs` |
| `PdfiumAnswersAsTheFake` | `RenderersAgree` | |
| `SuiteHolds` | `SuitePasses` | |
| `FilesChangeAsNamed` | `FilesChangeOnlyAsNamed` | `CommandLineProofs` |
| `LinesAreUnderstoodHolds` | `LinesAreUnderstood` | |
| `SuccessIsWhatWasAskedHolds` | `SuccessIsWhatWasAsked` | |
| `SaveTypesHold` | `TypeOK` | `PdfSaveProofs` |
| `SavesShowWhatWasShown` | `SavedFileReopensAsShown` | |
| `CleanDocumentsMatchTheirFile` | `CleanMatchesBase` | |
| `TrashIsKeptUntilCompacted` | `ObjectsFollowPages` | |
| `ServiceTypesHold` | `TypeOK` | `RenderProofs` |
| `PicturesMatchRequests` | `TilesMatchRequests` | |
| `ServiceKeepsContract` | `KeepsContract` | |
| `CachesFollowDocument` | `CachesFollowSnapshot` | |
| `CanvasWaitsForLiveRequests` | `CanvasAwaitsLiveRequests` | |

Assumptions, each a named `ASSUME` that the runs evaluate: rotations are among
0..3 and revisions wrap at 2 or more (`PageMapAssumption`); the limit is positive,
as a `NonZeroUsize` is (`EditHistoryAssumption`); there is a document to run on
(`CompositeAssumption`); bounds are natural numbers and no
path or content is one of the special values (`AppShellAssumption`,
`NoneIsNoDocument`); services and guests are different threads, identities of
pages are distinct, sizes and scales whole numbers of their fixed point
(`PdfiumLibraryAssumption`); `--` and `--force` begin with two dashes, and what is
inline is no subcommand (`CommandArgsAssumption`); a path names one file, and one that
opens has pages, as `build_from_incremental` sees to (`CommandLineAssumption`); a
missing `/Rotate` is not one of the rotations, and a file that is opened has any keys
and any references between its pages, of which those below one node inherit the same
(`PdfSaveAssumption`); the backlog has room for a request, scales and the cache
budget are numbers (`RenderServiceAssumption`); and the bound on the edits keeps the
revision from wrapping in a session (`RenderSessionAssumption`): it is 64 bits wide
in the code, and under a counter that wraps a request would name two versions.
`ViewerAssumption` is the same for the viewer; its rail has a scale of the service's,
and a frame may submit at least one request. Units, widths and the texture limit of
the layout are positive, the ladders of zooms and of scales are finite, 100 % is on the
one and something on the other (`PageLayoutAssumption`); a view shows sequences of
pages, the empty one among them, and a scroll bar is within the tolerance of
`viewer.rs:26` and narrower than any window, which has a minimum size of 640 by 480
(`main.rs:52`) (`ViewStateAssumption`).

**The history.** `PageMapProofs` has one lemma per mutation: it keeps a well-formed
document well-formed, and it moves the revision. Two laws of the same module
carry the history:

- `InverseLaw`: a command applied to a well-formed document, then its inverse, gives
  back the same slots and at least the same trash.
- `StandInLaw`: a command treats two documents with equal slots alike if the one
  has at least the trash of the other. It is needed because undoing an insertion
  leaves the inserted page in the trash, so the document undo arrives at is not the
  one that was left, it only *stands for* it.

Neither `NextEntryApplies` nor the refinement is inductive: what undo does next
says nothing about the entry below it. `HistoryInvariant`, the conjunction of
`TypeOK`, `PageIdentity`, `HistoryWithinLimit` and `EntriesReplayTimeline`, is: each
entry leads from one document of the timeline to its neighbour, and the
documents on the timeline are all well-formed. `HistoryInvariantInductive` proves
it action by action; the redo case uses `StandInLaw` to carry the entries on both
sides of the document that was replaced. `HistoryNeverRefused` reads the entry next
to the cursor off it, and `HistoryWalksTimeline` maps every action to `Edit`, `Undo`,
`Redo` or `Restart` of `Timeline`, or to a stutter.

**Pages.** `NoPageIsLost` looks at a document as the *set* of its slots, mapped and
trashed: removing, restoring and moving keep it, turning replaces a slot by one of
the same identity, inserting adds one under the next identity.

**Sequences.** `AllOrNothing` is not inductive: that the rollback ends where the
sequence began says nothing about the way there. `CompositeInvariant` adds that the
collected inverses *unwind* the target: there is a line of well-formed documents
whose first the target stands for and whose last has the pages of the start, and
each inverse leads from one to the next. A step of the sequence puts its own
inverse in front (`InverseLaw`), a step of the rollback takes one off; since undoing
leaves more in the trash than there was, it needs `StandInLaw` too. Imported copies
keep a document well-formed because the identities they get are past all it
handed out (`ImportWellFormed`).

`KeptInverseRestores` says more than a rollback: the inverses handed out earlier
have to work on a document that another sequence ran over and rolled back since.
The invariant keeps for each of them that its commands unwind its document
(`KeptRestore`), and for the target of a running sequence that they unwound the
document it started from (`Undoable`), for which the rolled-back one stands. The
inverse of an import is a list of removals: the copies stand as one block at the
insertion point, so taking the first of them away, as often as there are copies,
leaves the pages around them (`BlockUnwinds`).

**The shell.** `ShellInvariant` adds to the properties that at most one question is
open, and that the saved revision is not ahead of the document's: a
document is clean exactly if the two are equal, which says something about the
file only if the revision never returns to a value under which other contents were
saved. The action property is then read off each way out of a document.

**Pdfium.** `LockInvariant`: a thread that calls holds the lock, one thread at
most loads, and none calls while one does. `AnswerInvariant`: every answer in a
channel agrees with the fake's, and what a worker is rendering is a request both
renderers would draw. That the tile agrees is arithmetic on rotations: the residual
turn `raster.rs` asks Pdfium for, added to the file's own, is the turn the fake has.
What the suite says of one answer then has to be shown of the fake's alone, and of
the refusals the fake does not know (`AgreeingFits`); the size of a tile is a
division rounded to nearest (`PixelsAreNearest`). `CountInvariant` is for the whole:
as long as the handle is held, a request is under way, in the queue or among the
answers, as often as it is asked, and no more often once the worker is gone.

**The command line.** `NamedInvariant` follows each run through its steps:
outputs guarded so far are permitted, that is missing at first or named to be
overwritten; a run that opens, operates or writes has all of its targets permitted;
and it writes no more documents than it has targets (`ParsedIsShaped`,
`OperatedResults`). A file another process created after the guard is permitted as
well: it was not there at first, which is what the code does and the property says.

The other two properties are proved from the texts of a line to the bytes on disk:

- *Lines.* Each item that is scanned adds to a weight of the half-scanned line exactly
  what it is (`ItemIsWeighed`): a positional, a flag with or without a value, the
  bare `--`. As no flag is given twice (`FlagsOK`) and each subcommand wants its
  flags all, the items of an accepted line are those of its invocation (`ParsedIsAsked`).
- *Pages.* The positions a selection names are sorted (`AscendingOrders`), cut into
  runs whose pages one after the other are the pages at those positions
  (`JoinedCovers`, `RunsCover`), and so `OperatedIsAsked`: an operation is refused, or
  has one result per target, with the pages asked for and behind them
  no more than `Behind` allows, whatever compaction finds named.
- *Files.* `AskedInvariant` adds that what a run has written so far stands on disk,
  unless other bytes are in the file too or it is one output under two names
  (`Delivered`). What other processes do keeps this, as a file they write to is no
  longer this run's alone (`OneMoves`).

**Saving.** That a written file shows what the user saw is no invariant on its own:
a save writes what the update collected over several edits and attempts, and reads
the rest from the bytes the document was opened from. `SaveInvariant` says how the
two hang together:

- an object of the update hides one of the base only if it has the same content, and
  page objects allocated since have numbers of their own (`UpdateFits`, `Backed`);
- a page that was turned is marked, in its slot and in the dirty state; any other one
  is blank or reads as it did on opening, *and still would when it is taken from
  under its node*, since its inherited key was written onto it first
  (`RotationsFit`). Without the second half the step that rebuilds the page tree,
  after an earlier attempt that had written some of the keys, could not be proved;
- while the tree counts as untouched, slots follow the base's page order
  (`StructureFits`);
- a purged page is in neither slots nor trash, and every object of the base that no slot
  has is a purged page's; once a page was purged, no slot's object in the base hangs
  from an intermediate node; and in the base, what was given up is named from outside
  (`GivenUpFits`).

The last is what carries `GivenUpPagesAreNamed` through an incremental save: appending
rewrites pages of the document, and what these pages name must not be less than what
they named in the base (`AppendedIsNamed`). A rewritten page only loses its node and
the kin below it, which by then it no longer has. For a compaction it is a fact about
`prune_objects` (`ReachedIsNamed`): were a set of reached pages beside the tree named by
nothing outside of the set, the rest would have all the trailer and its own pages
name, and the least such set would be smaller. Renumbering keeps who names whom
(`RewrittenIsNamed`).

A compaction and `open` establish the same facts for a fresh document, so both use
one lemma. A save whose rebase fails writes what a compaction writes and keeps the
document of a failed save, so its step is made of those two. `CleanMatchesBase` is `RotationsFit` and `StructureFits` with the dirty
state clean.

**Rendering.** The proofs have three layers. The first is about the code's own
loops: the byte count of the cache, the eviction and the filter of outdated
requests are functions by recursion over a sequence, and are proved by induction
over its length: they count, stay inside of the budget, and keep order and members.
The second is `TilesMatchRequests`. It is not inductive, because a request in the
channel says under which revision it was submitted and nothing about the snapshot
the worker will hold when it gets there. `InboxInOrder` says it: reading the channel
message by message carries the worker's snapshot from version to version of the
document, each request stands where the snapshot has reached its revision, and the
end of the channel is the document's own revision as long as the handle is alive. So what a rebind leaves in the
backlog, what it leaves in the cache, and every tile rendered from then on belong to
one version (`PicturesMatch`). A worker that lost its document is excepted: it draws
nothing any more.

The third is the refinement of `RenderContract`, by counting. The mapping counts for
each request how many submissions of it wait in channel and backlog, and how many
answers to it are on their way. Each action changes the two counts as one contract
step does: reading a message moves a submission and changes neither or merges it
into an equal one (`ReadCounts`); superseding the oldest request, a rebind over the
whole backlog and the drain of a failed worker are batches answered at once
(`BatchAnswered`, `QueueCounts`); a panic stops the service with what it held.

**The viewer.** What the two caches hold says nothing of the answers that are still on
their way, so neither property is inductive. `ViewerInvariant` adds a count, the
contract's own: of a request of the document drawn, no more submissions and answers
are on their way than the two caches wait for (one each at most); of a request the
canvas waits for, at least one is (`AwaitedByCaches`). The first half is why an answer
never finds its request settled, and why a refusal never joins a tile that is there;
the second is the property itself. Older requests are not counted: what was in flight
when an edit came is waited for by nobody, its answer files nothing, and no later
document has its revision. A poll hands over many answers at once, so
`AbsorbedSoFar` says the same halfway through `absorb_responses_routed`, with the
answers not yet absorbed counted as on their way. What each operation of a cache makes
of it is a lemma of its own (`FiledSound`, `RetainedSound`, `EvictedSound`,
`MarkedSound`, `DrawnSound`), and the worker's side is the counting lemmas of the
refinement. The rail is not promised the second half, since it does not have it: a
tile both surfaces asked for goes to the canvas (see the disagreements above).

**The view.** Beneath it is the arithmetic of the layout. The binary searches of
`layout.rs` find the border of a property that holds up to some page and of none after
(`PartitionPointFinds`, `SearchEnds`), which the tops and bottoms of stacked pages have
(`StackedInOrder`, by induction over the pages), so what they return is what touches the
viewport (`SearchShows`) and, of a document with pages, contains the current one
(`CurrentIsAPage`). `NearestFirst` orders the visible pages with the focus in front
(`FocusComesFirst`).

None of the properties holds between any two lines of a method: after the zoom is set
the offset is the old one, after the pages are replaced the fit is. `SoundView` is what
each *method* of `ViewerState` leaves behind, one lemma each (`SetZoomPlaces`,
`RefitIsSound`, `ScrolledIsSound`, `AdoptedIsSound`, ...): the zoom is between the ends
of its ladder; the current page is the one the searches give at the offset, unless a
jump named it; and a view fitted to its width has the zoom that fits its widest page to
the width last fitted to. Two points carry it. An open jump suspends what is said of
the current page, so the invariant remembers instead that the requested offset is the
top of that page, which is what `JumpsLand` needs: the content is at least as high as
the page's bottom, so an offset kept within it still shows the page. And a refit
follows the viewport only when its width moved by more than the tolerance, and none
follows it within a frame, so the invariant compares with the width *last fitted to*
and promises that the viewport is close to it only where a frame begins (`Steady` in
`ViewInvariant`): a bar that comes and goes then is one step, not a drift. Every tile
asked for is at a scale at which it fits the texture (`TilesFit`).

Only model-checked: PageImport and DocumentTwins, and
everything about liveness, which with `ENABLED` is out of the prover's reach.
Induction is at hand only in the form of a set of numbers that holds 0 and with each
number the next (`EveryNumber`), as the installed provers cannot instantiate the
library's induction theorems. It reaches recursive functions over numbers or over the
places of a sequence; statements about `SelectSeq`, about the folds of the community
modules, which the provers cannot expand, or about a walk of a graph, such as
`CopiesAreFaithful`, stay with TLC.

## What is not modelled

- A history of composite commands: `CompositeCommands` keeps one inverse, and
  `EditHistory` many of one-page commands.
- What Pdfium paints, and how it reads a file that changes beneath it.
- In Viewer: a panicking worker (nothing recovers, both surfaces wait forever),
  partial visibility (ViewState has it) and hiding the rail. A budget below the visible
  pages, under which a frame evicts what it is about to draw (`tiles/cache.rs:284`), costs
  a repeated rasterization and no property speaks of it. The two halves of the
  viewer are not composed: their product is too large for TLC, and they share the
  page list and the zoom alone.
- Rounding of floating-point numbers, in layouts and tiles; texture upload.
- The parsing and writing of bytes (lopdf), and attributes other than `/Rotate` in
  PdfSave. Of the objects between the trailer and a page (outlines, form fields,
  destinations) PdfSave keeps which pages they lead to, not the objects; the command
  line keeps of that only that any hidden page may be named.
- Status bar, theme and icons, which have no state; wording of messages.
- Benches, fuzz targets and the round-trip harness, which run the code above.

## Plan

Done: the modules above, in the order of the system's own layers (document,
history, composites, render service, viewer, shell, saving; then the fakes, the
command line, the layout, the copies and the lock), with their theorems.

What would add most from here:

1. A proof of `TwinsAnswerAlike`: a mapping from the slots, sizes and trash of the
   real document to the page infos of the fake, kept call by call.
2. A composition of the two halves of the viewer: what `ViewState` shows as the
   visible range of `Viewer`, with the eviction of tiles that scrolled away.
3. A history whose entries are composite commands.
