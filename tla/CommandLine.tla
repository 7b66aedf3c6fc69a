---------------------------- MODULE CommandLine ----------------------------
(***************************************************************************)
(* opdf-cli at work on real files (opdf-cli/src/run.rs, main.rs): several  *)
(* processes, each parsing its line, refusing to clobber, opening what it  *)
(* needs, operating and writing, one step of one of them at a time. Files  *)
(* are written in place, so a reader or a kill may find one half written.  *)
(*                                                                         *)
(* A document is its pages in order and the pages it hides: removed ones   *)
(* that are still among its objects. One that opens has pages              *)
(* (build_from_incremental refuses one without).                           *)
(***************************************************************************)
EXTENDS CommandArgs

CONSTANTS
  Process,   \* shells that run the program, one command at a time
  LinesOf,   \* the command lines each of them may enter
  File,      \* the files on disk
  FileOf,    \* what a path names; two spellings may name one file
  Sheet,     \* what pages show
  Originals, \* what the files may hold at first
  MaxRuns    \* bound on the commands of one shell

Page == [sheet : Sheet, turns : 0..3]
Contents == [state : {"missing", "damaged", "pdf"}, pages : Seq(Page), hidden : SUBSET Page]
Missing == [state |-> "missing", pages |-> << >>, hidden |-> {}]
Damaged == [state |-> "damaged", pages |-> << >>, hidden |-> {}]
Pdf(pages, hidden) == [state |-> "pdf", pages |-> pages, hidden |-> hidden]

Nobody == "nobody"

ASSUME CommandLineAssumption ==
  /\ Nobody \notin Process
  /\ \A p \in Process : LinesOf[p] \subseteq Seq(Text)
  /\ FileOf \in [Text -> File]
  /\ Originals \subseteq [File -> Contents]
  /\ \A o \in Originals, f \in File : o[f].state = "pdf" => o[f].pages # << >>
  /\ MaxRuns \in Nat

VARIABLES
  disk,       \* what each file holds
  process,    \* the run each shell is in
  original,   \* history: what each file held at first
  sanctioned, \* history: the files a command named to be overwritten
  writer      \* history: the process whose bytes a file holds, if just one's

vars == <<disk, process, original, sanctioned, writer>>

Outcome ==
  {"none", "success", "misuse", "exists", "open", "operation", "save", "killed"}

\* The process exit code of an outcome. A killed process has none.
ExitCode(outcome) ==
  CASE outcome = "success" -> 0
    [] outcome = "misuse" -> 2
    [] outcome \in {"exists", "open", "operation", "save"} -> 1
    [] OTHER -> -1

Idle ==
  [at |-> "idle", argv |-> << >>, asked |-> Misuse, guarded |-> 0,
   opened |-> << >>, results |-> << >>, written |-> 0, touched |-> FALSE,
   outcome |-> "none", runs |-> 0]

TypeOK ==
  /\ disk \in [File -> Contents] /\ original \in [File -> Contents]
  /\ sanctioned \subseteq File
  /\ writer \in [File -> Process \cup {Nobody}]
  /\ \A p \in Process :
       /\ DOMAIN process[p] = DOMAIN Idle
       /\ process[p].at \in
            {"idle", "entered", "guarding", "opening", "operating", "saving",
             "writing", "ended"}
       /\ process[p].asked \in Invocation
       /\ process[p].outcome \in Outcome
       /\ process[p].at = "ended" <=> process[p].outcome # "none"
       /\ \A d \in ToSet(process[p].opened \o process[p].results) :
            d \in Contents /\ d.state = "pdf" /\ d.pages # << >>
       /\ process[p].written <= Len(process[p].results)
       /\ process[p].at = "writing" => process[p].written < Len(process[p].results)

Init ==
  /\ original \in Originals
  /\ disk = original
  /\ process = [p \in Process |-> Idle]
  /\ sanctioned = {}
  /\ writer = [f \in File |-> Nobody]

-----------------------------------------------------------------------------
Ended(run, outcome) == [run EXCEPT !.at = "ended", !.outcome = outcome]

\* Where an invocation writes: rotate without --out writes over its input.
Targets(asked) == IF asked.outputs = << >> THEN asked.inputs ELSE asked.outputs
InPlace(asked) == asked.command = "rotate" /\ asked.outputs = << >>

Enter(p) ==
  /\ process[p].at = "idle" /\ process[p].runs < MaxRuns
  /\ \E argv \in LinesOf[p] :
       process' = [process EXCEPT ![p] =
         [Idle EXCEPT !.at = "entered", !.argv = argv, !.runs = process[p].runs + 1]]
  /\ UNCHANGED <<disk, original, sanctioned, writer>>

\* Two outputs spelled alike are a misuse; two spellings of one file are not.
SameOutput(asked) ==
  asked.command = "split" /\ asked.outputs[1] = asked.outputs[2]

Dispatched(run, asked) ==
  CASE asked.command \in {"help", "version"} -> Ended(run, "success")
    [] asked.command = "misuse" \/ SameOutput(asked) -> Ended(run, "misuse")
    [] OTHER -> [run EXCEPT !.at = IF InPlace(asked) THEN "opening" ELSE "guarding"]

Dispatch(p) ==
  /\ process[p].at = "entered"
  /\ LET asked == Parsed(process[p].argv)
         run == [process[p] EXCEPT !.argv = << >>, !.asked = asked]
     IN  /\ process' = [process EXCEPT ![p] = Dispatched(run, asked)]
         /\ sanctioned' = sanctioned \cup
              IF asked.force \/ InPlace(asked)
              THEN {FileOf[t] : t \in ToSet(Targets(asked))} ELSE {}
  /\ UNCHANGED <<disk, original, writer>>

\* Faulty variant: the guard of an output looks at the first one only.
NextOutputFirst(run) == FileOf[run.asked.outputs[1]]

NextOutput(run) == FileOf[run.asked.outputs[run.guarded + 1]]

Guard(p) ==
  LET run == process[p]
  IN  /\ run.at = "guarding"
      /\ process' = [process EXCEPT ![p] =
           IF ~run.asked.force /\ disk[NextOutput(run)] # Missing
           THEN Ended(run, "exists")
           ELSE [run EXCEPT
                   !.guarded = @ + 1,
                   !.at = IF run.guarded + 1 = Len(run.asked.outputs)
                          THEN "opening" ELSE "guarding"]]
      /\ UNCHANGED <<disk, original, sanctioned, writer>>

Open(p) ==
  LET run == process[p]
      found == disk[FileOf[run.asked.inputs[Len(run.opened) + 1]]]
  IN  /\ run.at = "opening"
      /\ process' = [process EXCEPT ![p] =
           IF found.state # "pdf" THEN Ended(run, "open")
           ELSE [run EXCEPT
                   !.opened = Append(@, found),
                   !.at = IF Len(run.opened) + 1 = Len(run.asked.inputs)
                          THEN "operating" ELSE "opening"]]
      /\ UNCHANGED <<disk, original, sanctioned, writer>>

-----------------------------------------------------------------------------
\* The operations, on documents in memory, and the two ways to write one.

\* prune_objects keeps the removed pages that the outline, a form field or a
\* page that stays still names.
Compacted(d, named) == Pdf(d.pages, d.hidden \cap named)
Appended(d) == d

Extended(d, pages) == Pdf(d.pages \o pages, d.hidden)
Empty == Pdf(<< >>, {})

\* A new document that is given one part after the other.
Gathered(parts) ==
  LET built[n \in 0..Len(parts)] ==
        IF n = 0 THEN Empty ELSE Extended(built[n - 1], parts[n])
  IN  built[Len(parts)]

Merged(opened) == Gathered([i \in DOMAIN opened |-> opened[i].pages])

HeadOf(d, at) ==
  Pdf(SubSeq(d.pages, 1, at - 1), d.hidden \cup ToSet(SubSeq(d.pages, at, Len(d.pages))))
TailOf(d, at) == Extended(Empty, SubSeq(d.pages, at, Len(d.pages)))

Rotated(d, indices, turns) ==
  LET chosen == {i + 1 : i \in ToSet(indices)}
  IN  Pdf([i \in DOMAIN d.pages |->
             IF i \in chosen THEN [d.pages[i] EXCEPT !.turns = turns] ELSE d.pages[i]],
          d.hidden)

Extracted(d, indices) ==
  LET runs == ContiguousRuns(indices)
  IN  Gathered([r \in DOMAIN runs |-> SubSeq(d.pages, runs[r][1] + 1, runs[r][2])])

\* Neither half may come out empty.
IsBoundary(at, n) == at >= 2 /\ at <= n

\* What a compacting save of a split finds named is in the file, and unknown.
Operated(run, named) ==
  LET asked == run.asked
      d == run.opened[1]
      n == Len(d.pages)
      With(results) == [run EXCEPT !.results = results, !.at = "saving"]
  IN  CASE asked.command = "merge" -> With(<<Compacted(Merged(run.opened), named)>>)
        [] asked.command = "split" ->
             IF ~IsBoundary(asked.at, n) THEN Ended(run, "misuse")
             ELSE With(<<Compacted(HeadOf(d, asked.at), named),
                         Compacted(TailOf(d, asked.at), named)>>)
        [] asked.command = "rotate" ->
             IF ~Fits(asked.pages, n) THEN Ended(run, "operation")
             ELSE With(<<Appended(Rotated(d, Resolved(asked.pages, n), asked.turns))>>)
        [] asked.command = "extract" ->
             IF ~Fits(asked.pages, n) THEN Ended(run, "operation")
             ELSE With(<<Compacted(Extracted(d, Resolved(asked.pages, n)), named)>>)

\* The pages of the input that its objects may name: those it shows or hides.
Nameable(run) == run.opened[1].hidden \cup ToSet(run.opened[1].pages)

Operate(p) ==
  /\ process[p].at = "operating"
  /\ \E named \in SUBSET Nameable(process[p]) :
       process' = [process EXCEPT ![p] = Operated(process[p], named)]
  /\ UNCHANGED <<disk, original, sanctioned, writer>>

-----------------------------------------------------------------------------
\* Writing: the file is emptied, then filled. Both documents have pages, so
\* neither save refuses one for having none.

Target(run) == FileOf[Targets(run.asked)[run.written + 1]]

StartWriting(p) ==
  LET run == process[p]
  IN  /\ run.at = "saving"
      /\ disk' = [disk EXCEPT ![Target(run)] = Damaged]
      /\ writer' = [writer EXCEPT ![Target(run)] = p]
      /\ process' = [process EXCEPT ![p] = [run EXCEPT !.at = "writing", !.touched = TRUE]]
      /\ UNCHANGED <<original, sanctioned>>

\* Whether another process wrote to the file since p emptied it.
Shared(p, f) ==
  \/ writer[f] # p
  \/ \E q \in Process \ {p} : process[q].at = "writing" /\ Target(process[q]) = f

FinishWriting(p) ==
  LET run == process[p]
      f == Target(run)
      result == run.results[run.written + 1]
  IN  /\ run.at = "writing"
      /\ \E found \in {result} \cup (IF Shared(p, f) THEN {Damaged} ELSE {}) :
           disk' = [disk EXCEPT ![f] = found]
      /\ writer' = [writer EXCEPT ![f] = IF Shared(p, f) THEN Nobody ELSE p]
      /\ process' = [process EXCEPT ![p] =
           IF run.written + 1 < Len(run.results)
           THEN [run EXCEPT !.written = @ + 1, !.at = "saving"]
           ELSE Ended([run EXCEPT !.written = @ + 1], "success")]
      /\ UNCHANGED <<original, sanctioned>>

\* The write fails, before the file is emptied or after.
WriteFails(p) ==
  /\ process[p].at \in {"saving", "writing"}
  /\ process' = [process EXCEPT ![p] = Ended(process[p], "save")]
  /\ UNCHANGED <<disk, original, sanctioned, writer>>

\* The process is killed.
Kill(p) ==
  /\ process[p].at \notin {"idle", "ended"}
  /\ process' = [process EXCEPT ![p] = Ended(process[p], "killed")]
  /\ UNCHANGED <<disk, original, sanctioned, writer>>

\* The shell is back, and may run another command or the same one again.
Return(p) ==
  /\ process[p].at = "ended"
  /\ process' = [process EXCEPT ![p] = [Idle EXCEPT !.runs = process[p].runs]]
  /\ UNCHANGED <<disk, original, sanctioned, writer>>

Next ==
  \E p \in Process :
    \/ Enter(p) \/ Dispatch(p) \/ Guard(p) \/ Open(p) \/ Operate(p)
    \/ StartWriting(p) \/ FinishWriting(p) \/ WriteFails(p)
    \/ Kill(p) \/ Return(p)

Spec == Init /\ [][Next]_vars

-----------------------------------------------------------------------------
\* Properties

\* A command that reports success has left in each of its files exactly what
\* was asked for: extract, split and merge the named pages, once each, in
\* document order, rotate every page of its input with the named ones turned;
\* unless another process wrote to that file as well, or two outputs are two
\* names of one file. Behind its pages a file hides nothing but what the input
\* hid already and, in the first half of a split, pages of the second: those the
\* first still names, which compaction keeps.
Chosen(run) ==
  {i \in 1..Len(run.opened[1].pages) :
     \E k \in DOMAIN run.asked.pages :
       run.asked.pages[k].first <= i /\ i <= LastOf(run.asked.pages[k], Len(run.opened[1].pages))}
PagesAsked(run, k) ==
  LET pages == run.opened[1].pages
  IN  CASE run.asked.command = "merge" ->
             FlattenSeq([i \in DOMAIN run.opened |-> run.opened[i].pages])
        [] run.asked.command = "split" ->
             IF k = 1 THEN SubSeq(pages, 1, run.asked.at - 1)
             ELSE SubSeq(pages, run.asked.at, Len(pages))
        [] run.asked.command = "rotate" ->
             [i \in DOMAIN pages |->
                IF i \in Chosen(run) THEN [pages[i] EXCEPT !.turns = run.asked.turns]
                ELSE pages[i]]
        [] run.asked.command = "extract" ->
             [i \in 1..Cardinality(Chosen(run)) |->
                pages[CHOOSE j \in Chosen(run) :
                        Cardinality({h \in Chosen(run) : h <= j}) = i]]
Behind(run, k) ==
  LET d == run.opened[1]
  IN  CASE run.asked.command = "rotate" -> d.hidden
        [] run.asked.command = "split" ->
             IF k = 1 THEN d.hidden \cup ToSet(SubSeq(d.pages, run.asked.at, Len(d.pages)))
             ELSE {}
        [] run.asked.command \in {"merge", "extract"} -> {}
SuccessIsWhatWasAsked ==
  \A p \in Process :
    LET run == process[p]
        targets == Targets(run.asked)
    IN  ExitCode(run.outcome) = 0 /\ run.asked.command \in DOMAIN ValueFlags =>
          \A k \in DOMAIN targets :
            LET f == FileOf[targets[k]]
            IN  /\ writer[f] = p
                /\ \A j \in DOMAIN targets : FileOf[targets[j]] = f => j = k
                => /\ disk[f].state = "pdf"
                   /\ disk[f].pages = PagesAsked(run, k)
                   /\ disk[f].hidden \subseteq Behind(run, k)

\* A command that is refused, for its line, for an output that exists, for an
\* input that does not open or for pages that are not there, has not touched
\* a file: each refusal comes before the first write.
RefusalsTouchNothing ==
  \A p \in Process :
    process[p].outcome \in {"misuse", "exists", "open", "operation"} => ~process[p].touched

\* Whatever runs, fails or is killed, in whatever order, a file that was there
\* at first changes only when a command named it to be overwritten, with
\* --force or as the input of a rotate in place; and no refusal changes any.
FilesChangeOnlyAsNamed ==
  /\ \A f \in File : original[f] # Missing /\ f \notin sanctioned => disk[f] = original[f]
  /\ RefusalsTouchNothing

\* No item of an accepted line is ignored or taken for something else: with
\* its flags, their values, the paths, --force and a bare "--" the invocation
\* accounts for every item there is.
FlagNames(asked) ==
  CASE asked.command = "merge" -> 0
    [] asked.command = "split" -> 3
    [] asked.command = "rotate" -> 2 + Len(asked.outputs)
    [] asked.command = "extract" -> 2
FlagTexts(asked) ==  \* values that are not paths
  CASE asked.command = "merge" -> 0
    [] asked.command = "rotate" -> 2
    [] asked.command \in {"split", "extract"} -> 1
Flagged(argv) ==     \* the items before a bare "--"
  {i \in DOMAIN argv : \A j \in 1..i : argv[j] # "--"}
EveryItemIsClaimed ==
  \A p \in Process :
    LET argv == process[p].argv
        asked == Parsed(argv)
    IN  asked.command \in DOMAIN ValueFlags =>
          Len(argv) + Cardinality({i \in Flagged(argv) : argv[i] \in DOMAIN Inline}) =
            1 + Len(asked.inputs) + Len(asked.outputs) + FlagNames(asked) + FlagTexts(asked)
            + Cardinality({i \in Flagged(argv) : argv[i] = "--force"})
            + (IF Flagged(argv) = DOMAIN argv THEN 0 ELSE 1)

\* What is typed is taken as typed, and nothing else reaches a command.
LinesAreUnderstood == TypeOK /\ EveryItemIsClaimed
=============================================================================
