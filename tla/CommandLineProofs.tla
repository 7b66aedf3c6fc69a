-------------------------- MODULE CommandLineProofs --------------------------
(***************************************************************************)
(* For any texts, files and number of processes, whatever the lines say    *)
(* and however runs interleave, fail or are killed: a file changes only as *)
(* a command named it to be overwritten, and a refused command changes     *)
(* none; every item of an accepted line is accounted for; and a command    *)
(* that succeeds has left in its files what its line asked for.            *)
(*                                                                         *)
(* The scan of a line, the runs of a selection and the parts a document is *)
(* made of are recursive functions over 0..n. Induction over a set of      *)
(* numbers (EveryNumber) gives that each exists, and what it computes.     *)
(***************************************************************************)
EXTENDS CommandLine, SequenceTheorems, FiniteSetTheorems, WellFoundedInduction, TLAPS

-----------------------------------------------------------------------------
\* What a line asks for

\* How many files a command writes, whatever was on its line.
Shaped(asked) ==
  /\ asked.command = "merge" => Len(asked.outputs) = 1
  /\ asked.command = "split" => Len(asked.outputs) = 2
  /\ asked.command = "rotate" =>
       Len(asked.inputs) = 1 /\ (asked.outputs = <<>> \/ Len(asked.outputs) = 1)
  /\ asked.command = "extract" => Len(asked.outputs) = 1

Working == {"merge", "split", "rotate", "extract"}
Commands == Working \cup {"help", "version", "misuse"}

LEMMA ParsedIsShaped ==
  ASSUME NEW items
  PROVE  Parsed(items).command \in Commands /\ Shaped(Parsed(items))
<1> DEFINE Good(asked) == asked.command \in Commands /\ Shaped(asked)
<1>1. Good(Plain("help")) /\ Good(Plain("version")) /\ Good(Misuse)
  BY DEF Plain, Misuse, Shaped, Commands, Working
<1>2. ASSUME NEW line
      PROVE  Good(Merging(line)) /\ Good(Splitting(line)) /\ Good(Rotating(line))
               /\ Good(Extracting(line))
  <2>1. Good(Merging(line))
    BY <1>1 DEF Merging, Plain, Shaped, Commands, Working
  <2>2. Good(Splitting(line))
    BY <1>1 DEF Splitting, Plain, Shaped, Commands, Working
  <2>3. Good(Rotating(line))
    BY <1>1 DEF Rotating, Plain, Shaped, Commands, Working
  <2>4. Good(Extracting(line))
    BY <1>1 DEF Extracting, Plain, Shaped, Commands, Working
  <2>5. QED BY <2>1, <2>2, <2>3, <2>4
<1>3. Good(Subcommanded(items))
  <2> DEFINE line == Scanned(Tail(items), ValueFlags[items[1]])
  <2>1. CASE items = << >> \/ items[1] \notin DOMAIN ValueFlags \/ line.misused
    BY <1>1, <2>1 DEF Subcommanded
  <2>2. CASE ~(items = << >> \/ items[1] \notin DOMAIN ValueFlags \/ line.misused)
    <3>1. items[1] \in {"merge", "split", "rotate", "extract"}
      BY <2>2 DEF ValueFlags
    <3> HIDE DEF Good
    <3>2. QED BY <1>2, <2>2, <3>1 DEF Subcommanded
  <2>3. QED BY <2>1, <2>2
<1> HIDE DEF Good
<1>4. Good(Parsed(items))
  BY <1>1, <1>3 DEF Parsed
<1>5. QED BY <1>4 DEF Good

-----------------------------------------------------------------------------
\* The inductive invariant

\* A file a run may write: it was not there at first, or was named.
Permitted(f) == f \in File => f \in sanctioned \/ original[f] = Missing

\* Each run guards its outputs one after the other, and writes only what it has
\* guarded, was told to force or takes as its input.
RunOK(p) ==
  LET run == process[p]
  IN  /\ DOMAIN run = DOMAIN Idle
      /\ run.at \in {"idle", "entered", "guarding", "opening", "operating", "saving",
                     "writing", "ended"}
      /\ run.at = "entered" => run.guarded = 0
      /\ run.at # "ended" => run.outcome = "none"
      /\ run.at \in {"idle", "entered", "guarding", "opening", "operating"} =>
           ~run.touched /\ run.written = 0
      /\ run.at \in {"guarding", "opening", "operating", "saving", "writing"} =>
           run.asked.command \in Working /\ Shaped(run.asked)
      /\ run.at = "guarding" =>
           /\ ~InPlace(run.asked)
           /\ run.guarded \in Nat /\ run.guarded < Len(run.asked.outputs)
           /\ \A i \in 1..run.guarded : Permitted(FileOf[run.asked.outputs[i]])
           /\ run.asked.force =>
                \A i \in 1..Len(run.asked.outputs) : Permitted(FileOf[run.asked.outputs[i]])
      /\ run.at \in {"opening", "operating", "saving", "writing"} =>
           \A i \in 1..Len(Targets(run.asked)) : Permitted(FileOf[Targets(run.asked)[i]])
      /\ run.at \in {"saving", "writing"} =>
           /\ run.written \in Nat /\ Len(run.results) \in Nat
           /\ run.written < Len(run.results)
           /\ Len(run.results) <= Len(Targets(run.asked))
      /\ run.outcome \in {"misuse", "exists", "open", "operation"} => ~run.touched

FilesOK ==
  /\ DOMAIN disk = File
  /\ \A f \in File : original[f] # Missing /\ f \notin sanctioned => disk[f] = original[f]

NamedInvariant ==
  /\ FilesOK
  /\ DOMAIN process = Process
  /\ \A p \in Process : RunOK(p)

LEMMA NamedInitially == Init => NamedInvariant
<1> SUFFICES ASSUME Init PROVE NamedInvariant
  OBVIOUS
<1>1. FilesOK /\ DOMAIN process = Process
  BY CommandLineAssumption DEF Init, FilesOK
<1>2. ASSUME NEW p \in Process PROVE RunOK(p)
  <2>1. process[p] = Idle
    BY DEF Init
  <2>2. QED BY <2>1 DEF RunOK, Idle
<1>3. QED BY <1>1, <1>2 DEF NamedInvariant

\* A step of one process.
LEMMA OneRuns ==
  ASSUME NamedInvariant, NEW p \in Process, NEW run,
         process' = [process EXCEPT ![p] = run],
         original' = original, sanctioned \subseteq sanctioned',
         RunOK(p)', FilesOK'
  PROVE  NamedInvariant'
<1>1. DOMAIN process' = Process /\ \A q \in Process \ {p} : process'[q] = process[q]
  BY DEF NamedInvariant
<1>2. \A f : Permitted(f) => Permitted(f)'
  BY DEF Permitted
<1>3. ASSUME NEW q \in Process \ {p} PROVE RunOK(q)'
  <2>1. RunOK(q) /\ process'[q] = process[q]
    BY <1>1 DEF NamedInvariant
  <2>2. QED BY <1>2, <2>1 DEF RunOK
<1>4. QED BY <1>1, <1>3 DEF NamedInvariant

-----------------------------------------------------------------------------
\* The steps

LEMMA StartingSteps ==
  ASSUME NamedInvariant, NEW p \in Process, Enter(p) \/ Return(p)
  PROVE  NamedInvariant'
<1>1. DOMAIN process = Process /\ FilesOK
  BY DEF NamedInvariant
<1>2. FilesOK' /\ original' = original /\ sanctioned' = sanctioned
  BY <1>1 DEF Enter, Return, FilesOK
<1>3. PICK run :
        /\ process' = [process EXCEPT ![p] = run]
        /\ DOMAIN run = DOMAIN Idle /\ run.at \in {"idle", "entered"}
        /\ run.guarded = 0 /\ run.written = 0 /\ ~run.touched /\ run.outcome = "none"
  <2>1. CASE Enter(p)
    <3>1. PICK argv :
            process' = [process EXCEPT ![p] =
              [Idle EXCEPT !.at = "entered", !.argv = argv, !.runs = process[p].runs + 1]]
      BY <2>1 DEF Enter
    <3> WITNESS [Idle EXCEPT !.at = "entered", !.argv = argv, !.runs = process[p].runs + 1]
    <3>2. QED BY <3>1 DEF Idle
  <2>2. CASE Return(p)
    <3>1. process' = [process EXCEPT ![p] = [Idle EXCEPT !.runs = process[p].runs]]
      BY <2>2 DEF Return
    <3> WITNESS [Idle EXCEPT !.runs = process[p].runs]
    <3>2. QED BY <3>1 DEF Idle
  <2>3. QED BY <2>1, <2>2
<1>4. process'[p] = run
  BY <1>1, <1>3
<1>5. RunOK(p)'
  BY <1>3, <1>4 DEF RunOK
<1>6. QED BY <1>2, <1>3, <1>5, OneRuns

\* A run that ends, however it does, only has to have touched nothing if it is
\* refused.
LEMMA EndingSteps ==
  ASSUME NamedInvariant, NEW p \in Process, NEW run, NEW outcome,
         run = Ended(process[p], outcome),
         process' = [process EXCEPT ![p] = run],
         process[p].at \in {"entered", "guarding", "opening", "operating", "saving", "writing"},
         \/ outcome \notin {"misuse", "exists", "open", "operation"}
         \/ process[p].at \notin {"saving", "writing"},
         disk' = disk, original' = original, sanctioned' = sanctioned
  PROVE  NamedInvariant'
<1>1. DOMAIN process = Process /\ FilesOK /\ RunOK(p)
  BY DEF NamedInvariant
<1>2. FilesOK'
  BY <1>1 DEF FilesOK
<1>3. process'[p] = Ended(process[p], outcome)
  BY <1>1
<1>4. RunOK(p)'
  BY <1>1, <1>3 DEF RunOK, Ended, Idle
<1>5. QED BY <1>2, <1>4, OneRuns

LEMMA DispatchStep ==
  ASSUME NamedInvariant, NEW p \in Process, Dispatch(p)
  PROVE  NamedInvariant'
<1>1. DOMAIN process = Process /\ FilesOK /\ RunOK(p)
  BY DEF NamedInvariant
<1>asked. PICK asked : asked = Parsed(process[p].argv)
  OBVIOUS
<1>run. PICK run : run = [process[p] EXCEPT !.argv = << >>, !.asked = asked]
  OBVIOUS
<1>2. asked.command \in Commands /\ Shaped(asked)
  BY <1>asked, ParsedIsShaped
<1>3. /\ process' = [process EXCEPT ![p] = Dispatched(run, asked)]
      /\ sanctioned' = sanctioned \cup
           IF asked.force \/ InPlace(asked) THEN {FileOf[t] : t \in ToSet(Targets(asked))} ELSE {}
      /\ disk' = disk /\ original' = original /\ process[p].at = "entered"
  BY <1>asked, <1>run DEF Dispatch
<1>4. FilesOK'
  BY <1>1, <1>3 DEF FilesOK
<1>5. process'[p] = Dispatched(run, asked)
  BY <1>1, <1>3
<1>6. /\ DOMAIN run = DOMAIN Idle /\ run.asked = asked /\ run.guarded = 0 /\ run.written = 0
      /\ ~run.touched /\ run.outcome = "none" /\ run.at = "entered"
  BY <1>1, <1>3, <1>run DEF RunOK, Idle
<1>7. asked.force \/ InPlace(asked) =>
        \A i \in 1..Len(Targets(asked)) : FileOf[Targets(asked)[i]] \in sanctioned'
  <2> SUFFICES ASSUME asked.force \/ InPlace(asked), NEW i \in 1..Len(Targets(asked))
               PROVE  FileOf[Targets(asked)[i]] \in sanctioned'
    OBVIOUS
  <2>1. Targets(asked)[i] \in ToSet(Targets(asked))
    BY DEF ToSet
  <2>2. QED BY <1>3, <2>1
<1>8. RunOK(p)'
  <2>1. CASE asked.command \in {"help", "version"} \/ asked.command = "misuse" \/ SameOutput(asked)
    <3>1. PICK outcome : process'[p] = Ended(run, outcome)
      BY <1>5, <2>1 DEF Dispatched
    <3>2. QED BY <1>6, <3>1 DEF RunOK, Ended, Idle
  <2>2. CASE ~(asked.command \in {"help", "version"} \/ asked.command = "misuse" \/ SameOutput(asked))
    <3>1. process'[p] = [run EXCEPT !.at = IF InPlace(asked) THEN "opening" ELSE "guarding"]
      BY <1>5, <2>2 DEF Dispatched
    <3>2. asked.command \in Working
      BY <1>2, <2>2 DEF Commands
    <3>3. CASE InPlace(asked)
      BY <1>2, <1>6, <1>7, <3>1, <3>2, <3>3 DEF RunOK, Idle, Permitted
    <3>4. CASE ~InPlace(asked)
      <4>1. 0 < Len(asked.outputs) /\ Targets(asked) = asked.outputs
        <5>1. Len(<<>>) = 0
          OBVIOUS
        <5>2. QED BY <1>2, <3>2, <3>4, <5>1 DEF Shaped, InPlace, Working, Targets
      <4>2. QED BY <1>2, <1>6, <1>7, <3>1, <3>2, <3>4, <4>1 DEF RunOK, Idle, Permitted
    <3>5. QED BY <3>3, <3>4
  <2>3. QED BY <2>1, <2>2
<1>9. QED BY <1>3, <1>4, <1>8, OneRuns

LEMMA GuardStep ==
  ASSUME NamedInvariant, NEW p \in Process, Guard(p)
  PROVE  NamedInvariant'
<1>1. DOMAIN process = Process /\ FilesOK /\ RunOK(p)
  BY DEF NamedInvariant
<1>run. PICK run : run = process[p]
  OBVIOUS
<1>next. PICK k : k = run.guarded + 1
  OBVIOUS
<1>2. CASE ~run.asked.force /\ disk[NextOutput(run)] # Missing
  <2>1. /\ process[p].at = "guarding" /\ UNCHANGED <<disk, original, sanctioned>>
        /\ process' = [process EXCEPT ![p] = Ended(process[p], "exists")]
    BY <1>2, <1>run DEF Guard
  <2>2. PICK next : next = Ended(process[p], "exists")
    OBVIOUS
  <2>3. QED BY <2>1, <2>2, EndingSteps
<1>3. CASE run.asked.force \/ disk[NextOutput(run)] = Missing
  <2>next. PICK next :
             next = [run EXCEPT !.guarded = k,
                                !.at = IF k = Len(run.asked.outputs) THEN "opening" ELSE "guarding"]
    OBVIOUS
  <2>1. /\ run.at = "guarding" /\ UNCHANGED <<disk, original, sanctioned>>
        /\ process' = [process EXCEPT ![p] = next]
    BY <1>run, <1>next, <1>3, <2>next DEF Guard
  <2>2. /\ run.guarded \in Nat /\ run.guarded < Len(run.asked.outputs)
        /\ ~InPlace(run.asked) /\ run.asked.command \in Working /\ Shaped(run.asked)
        /\ DOMAIN run = DOMAIN Idle
        /\ ~run.touched /\ run.written = 0 /\ run.outcome = "none"
    BY <1>1, <1>run, <2>1 DEF RunOK
  <2>3. Len(run.asked.outputs) \in {1, 2} /\ Targets(run.asked) = run.asked.outputs
    BY <2>2 DEF Shaped, Working, InPlace, Targets
  <2>4. k \in 1..Len(run.asked.outputs) /\ 1..k = 1..run.guarded \cup {k}
    BY <1>next, <2>2, <2>3
  <2>5. FilesOK'
    BY <1>1, <2>1 DEF FilesOK
  <2>6. \A i \in 1..k : Permitted(FileOf[run.asked.outputs[i]])
    <3>1. \A i \in 1..run.guarded : Permitted(FileOf[run.asked.outputs[i]])
      BY <1>1, <1>run, <2>1 DEF RunOK
    <3>2. Permitted(FileOf[run.asked.outputs[k]])
      <4>1. CASE run.asked.force
        BY <1>1, <1>run, <2>1, <2>4, <4>1 DEF RunOK
      <4>2. CASE disk[FileOf[run.asked.outputs[k]]] = Missing
        BY <1>1, <4>2 DEF FilesOK, Permitted
      <4>3. QED BY <1>3, <1>next, <4>1, <4>2 DEF NextOutput
    <3>3. QED BY <2>4, <3>1, <3>2
  <2>7. RunOK(p)'
    <3>1. process'[p] = next
      BY <1>1, <2>1
    <3>2. /\ DOMAIN next = DOMAIN Idle /\ next.guarded = k /\ next.asked = run.asked
          /\ ~next.touched /\ next.written = 0 /\ next.outcome = "none"
          /\ next.at = IF k = Len(run.asked.outputs) THEN "opening" ELSE "guarding"
      BY <2>2, <2>next DEF Idle
    <3>3. run.asked.force =>
            \A i \in 1..Len(run.asked.outputs) : Permitted(FileOf[run.asked.outputs[i]])
      BY <1>1, <1>run, <2>1 DEF RunOK
    <3>4. \A f : Permitted(f) => Permitted(f)'
      BY <2>1 DEF Permitted
    <3>5. CASE k = Len(run.asked.outputs)
      <4>1. next.at = "opening"
        BY <3>2, <3>5
      <4>2. QED BY <2>2, <2>3, <2>6, <3>1, <3>2, <3>4, <3>5, <4>1 DEF RunOK
    <3>6. CASE k # Len(run.asked.outputs)
      <4>1. next.at = "guarding" /\ k \in Nat /\ k < Len(run.asked.outputs)
        BY <2>3, <2>4, <3>2, <3>6
      <4>2. QED BY <2>2, <2>6, <3>1, <3>2, <3>3, <3>4, <4>1 DEF RunOK
    <3>7. QED BY <3>5, <3>6
  <2>8. QED BY <2>1, <2>5, <2>7, OneRuns
<1>4. QED BY <1>2, <1>3

\* Opening and operating leave every file alone.
LEMMA ReadingStep ==
  ASSUME NamedInvariant, NEW p \in Process, NEW run, NEW next,
         run = process[p], process' = [process EXCEPT ![p] = next],
         disk' = disk, original' = original, sanctioned' = sanctioned,
         run.at \in {"opening", "operating"},
         DOMAIN next = DOMAIN run,
         next.at \in {"opening", "operating", "saving"},
         next.at = "saving" =>
           Len(next.results) \in {1, 2} /\ Len(next.results) <= Len(Targets(next.asked)),
         next.asked = run.asked, next.written = run.written,
         next.touched = run.touched, next.outcome = run.outcome
  PROVE  NamedInvariant'
<1>1. DOMAIN process = Process /\ FilesOK /\ RunOK(p)
  BY DEF NamedInvariant
<1>2. FilesOK'
  BY <1>1 DEF FilesOK
<1>3. process'[p] = next
  BY <1>1
<1>4. RunOK(p)'
  BY SMTT(30), <1>1, <1>3 DEF RunOK, Permitted
<1>5. QED BY <1>2, <1>4, OneRuns

LEMMA OpenStep ==
  ASSUME NamedInvariant, NEW p \in Process, Open(p)
  PROVE  NamedInvariant'
<1>1. RunOK(p) /\ process[p].at = "opening" /\ UNCHANGED <<disk, original, sanctioned>>
  BY DEF NamedInvariant, Open
<1>run. PICK run : run = process[p]
  OBVIOUS
<1>found. PICK found : found = disk[FileOf[run.asked.inputs[Len(run.opened) + 1]]]
  OBVIOUS
<1>2. CASE found.state # "pdf"
  <2>1. process' = [process EXCEPT ![p] = Ended(process[p], "open")]
    BY <1>2, <1>run, <1>found DEF Open
  <2>2. PICK next : next = Ended(process[p], "open")
    OBVIOUS
  <2>3. QED BY <1>1, <2>1, <2>2, EndingSteps
<1>3. CASE found.state = "pdf"
  <2>next. PICK next :
         next = [run EXCEPT !.opened = Append(@, found),
                            !.at = IF Len(run.opened) + 1 = Len(run.asked.inputs)
                                   THEN "operating" ELSE "opening"]
    OBVIOUS
  <2>1. process' = [process EXCEPT ![p] = next]
    BY <1>3, <1>run, <1>found, <2>next DEF Open
  <2>2. /\ DOMAIN next = DOMAIN run /\ next.at \in {"opening", "operating"}
        /\ next.asked = run.asked /\ next.written = run.written
        /\ next.touched = run.touched /\ next.outcome = run.outcome
    BY <1>1, <1>run, <2>next DEF RunOK, Idle
  <2>3. QED BY <1>1, <1>run, <2>1, <2>2, ReadingStep
<1>4. QED BY <1>2, <1>3

\* As many documents come out as there are files to write.
LEMMA OperatedResults ==
  ASSUME NEW run, DOMAIN run = DOMAIN Idle, run.asked.command \in Working, Shaped(run.asked),
         NEW named
  PROVE  LET next == Operated(run, named)
         IN  \/ next = Ended(run, "misuse") \/ next = Ended(run, "operation")
             \/ /\ DOMAIN next = DOMAIN run /\ next.at = "saving"
                /\ Len(next.results) \in {1, 2}
                /\ Len(next.results) <= Len(Targets(run.asked))
                /\ next.asked = run.asked /\ next.written = run.written
                /\ next.touched = run.touched /\ next.outcome = run.outcome
<1>1. /\ run.asked.command \in {"merge", "rotate", "extract"} => Len(Targets(run.asked)) = 1
      /\ run.asked.command = "split" => Len(Targets(run.asked)) = 2
  <2> DEFINE outputs == run.asked.outputs
  <2>1. CASE outputs = << >>
    <3>1. Len(outputs) = 0
      BY <2>1
    <3>2. run.asked.command = "rotate" /\ Len(run.asked.inputs) = 1
      BY <3>1 DEF Shaped, Working
    <3>3. Targets(run.asked) = run.asked.inputs
      BY <2>1 DEF Targets
    <3>4. QED BY <3>2, <3>3
  <2>2. CASE outputs # << >>
    <3>1. Targets(run.asked) = outputs
      BY <2>2 DEF Targets
    <3>2. /\ run.asked.command \in {"merge", "rotate", "extract"} => Len(outputs) = 1
          /\ run.asked.command = "split" => Len(outputs) = 2
      BY <2>2 DEF Shaped
    <3>3. QED BY <3>1, <3>2
  <2>3. QED BY <2>1, <2>2
<1> DEFINE Saving(next) ==
      /\ DOMAIN next = DOMAIN run /\ next.at = "saving"
      /\ Len(next.results) \in {1, 2}
      /\ Len(next.results) <= Len(Targets(run.asked))
      /\ next.asked = run.asked /\ next.written = run.written
      /\ next.touched = run.touched /\ next.outcome = run.outcome
<1>next. PICK next : next = Operated(run, named)
  OBVIOUS
<1>3. CASE run.asked.command \in {"merge", "rotate", "extract"}
  <2>1. \/ next = Ended(run, "operation")
        \/ \E x : next = [run EXCEPT !.results = <<x>>, !.at = "saving"]
    BY <1>3, <1>next DEF Operated
  <2>2. CASE next # Ended(run, "operation")
    <3>1. PICK x : next = [run EXCEPT !.results = <<x>>, !.at = "saving"]
      BY <2>1, <2>2
    <3>2. PICK results : results = <<x>>
      OBVIOUS
    <3>3. Len(results) = 1 /\ next = [run EXCEPT !.results = results, !.at = "saving"]
      BY <3>1, <3>2
    <3>4. Len(Targets(run.asked)) = 1
      BY <1>1, <1>3
    <3>5. /\ DOMAIN next = DOMAIN run /\ next.at = "saving" /\ next.results = results
          /\ next.asked = run.asked /\ next.written = run.written
          /\ next.touched = run.touched /\ next.outcome = run.outcome
      BY <3>3 DEF Idle
    <3>6. Len(next.results) = 1
      <4>1. Len(results) = 1 /\ next.results = results
        BY <3>3, <3>5
      <4>2. QED BY <4>1
    <3>7. Saving(next)
      BY <3>4, <3>5, <3>6
    <3>8. QED BY <1>next, <3>7
  <2>3. QED BY <1>next, <2>2
<1>4. CASE run.asked.command = "split"
  <2>1. \/ next = Ended(run, "misuse")
        \/ \E x, y : next = [run EXCEPT !.results = <<x, y>>, !.at = "saving"]
    BY <1>4, <1>next DEF Operated
  <2>2. CASE next # Ended(run, "misuse")
    <3>1. PICK x, y : next = [run EXCEPT !.results = <<x, y>>, !.at = "saving"]
      BY <2>1, <2>2
    <3>2. PICK results : results = <<x, y>>
      OBVIOUS
    <3>3. Len(results) = 2 /\ next = [run EXCEPT !.results = results, !.at = "saving"]
      BY <3>1, <3>2
    <3>4. Len(Targets(run.asked)) = 2
      BY <1>1, <1>4
    <3>5. /\ DOMAIN next = DOMAIN run /\ next.at = "saving" /\ next.results = results
          /\ next.asked = run.asked /\ next.written = run.written
          /\ next.touched = run.touched /\ next.outcome = run.outcome
      BY <3>3 DEF Idle
    <3>6. Len(next.results) = 2
      <4>1. Len(results) = 2 /\ next.results = results
        BY <3>3, <3>5
      <4>2. QED BY <4>1
    <3>7. Saving(next)
      BY <3>4, <3>5, <3>6
    <3>8. QED BY <1>next, <3>7
  <2>3. QED BY <1>next, <2>2
<1>5. QED BY <1>3, <1>4 DEF Working

LEMMA OperateStep ==
  ASSUME NamedInvariant, NEW p \in Process, Operate(p)
  PROVE  NamedInvariant'
<1>1. /\ RunOK(p) /\ process[p].at = "operating" /\ UNCHANGED <<disk, original, sanctioned>>
  BY DEF NamedInvariant, Operate
<1>0. PICK named : process' = [process EXCEPT ![p] = Operated(process[p], named)]
  BY DEF Operate
<1>run. PICK run : run = process[p]
  OBVIOUS
<1>2. run.asked.command \in Working /\ Shaped(run.asked) /\ DOMAIN run = DOMAIN Idle
  BY <1>1, <1>run DEF RunOK
<1>3. CASE Operated(run, named) = Ended(run, "misuse")
  <2>1. PICK next : next = Ended(process[p], "misuse")
    OBVIOUS
  <2>2. process' = [process EXCEPT ![p] = next]
    BY <1>0, <1>3, <1>run, <2>1
  <2>3. QED BY <1>1, <2>1, <2>2, EndingSteps
<1>4. CASE Operated(run, named) = Ended(run, "operation")
  <2>1. PICK next : next = Ended(process[p], "operation")
    OBVIOUS
  <2>2. process' = [process EXCEPT ![p] = next]
    BY <1>0, <1>4, <1>run, <2>1
  <2>3. QED BY <1>1, <2>1, <2>2, EndingSteps
<1>5. CASE /\ Operated(run, named) # Ended(run, "misuse")
           /\ Operated(run, named) # Ended(run, "operation")
  <2>next. PICK next : next = Operated(run, named)
    OBVIOUS
  <2>1. /\ DOMAIN next = DOMAIN run /\ next.at = "saving"
        /\ Len(next.results) \in {1, 2}
        /\ Len(next.results) <= Len(Targets(run.asked))
        /\ next.asked = run.asked /\ next.written = run.written
        /\ next.touched = run.touched /\ next.outcome = run.outcome
    BY <1>2, <1>5, <2>next, OperatedResults
  <2>2. process' = [process EXCEPT ![p] = next]
    BY <1>0, <1>run, <2>next
  <2>3. QED BY ZenonT(60), <1>1, <1>run, <2>1, <2>2, ReadingStep
<1>6. QED BY <1>3, <1>4, <1>5

\* Whatever is written to a file a run may write, the other files stay.
LEMMA WritingKeepsFiles ==
  ASSUME FilesOK, NEW f, Permitted(f), NEW found, disk' = [disk EXCEPT ![f] = found],
         original' = original, sanctioned' = sanctioned
  PROVE  FilesOK'
<1>1. \A g \in File : g # f => disk'[g] = disk[g]
  BY DEF FilesOK
<1>2. DOMAIN disk' = File
  BY DEF FilesOK
<1>3. \A g \in File : original[g] # Missing /\ g \notin sanctioned => disk'[g] = original[g]
  BY <1>1 DEF FilesOK, Permitted
<1>4. QED BY <1>2, <1>3 DEF FilesOK

\* The file a run writes next is one it may write.
LEMMA TargetPermitted ==
  ASSUME NEW p \in Process, RunOK(p), process[p].at \in {"saving", "writing"}
  PROVE  Permitted(Target(process[p]))
<1>1. /\ process[p].written \in Nat /\ Len(process[p].results) \in Nat
      /\ process[p].written < Len(process[p].results)
      /\ Len(process[p].results) <= Len(Targets(process[p].asked))
      /\ process[p].asked.command \in Working /\ Shaped(process[p].asked)
      /\ \A i \in 1..Len(Targets(process[p].asked)) :
           Permitted(FileOf[Targets(process[p].asked)[i]])
  BY DEF RunOK
<1>k. PICK k : k = process[p].written + 1
  OBVIOUS
<1>n. PICK n : n = Len(Targets(process[p].asked))
  OBVIOUS
<1>2. n \in Nat
  <2>1. CASE process[p].asked.outputs = << >>
    <3>1. Len(process[p].asked.outputs) = 0
      BY <2>1
    <3>2. Len(process[p].asked.inputs) = 1
      BY <1>1, <3>1 DEF Shaped, Working
    <3>3. QED BY <1>n, <2>1, <3>2 DEF Targets
  <2>2. CASE process[p].asked.outputs # << >>
    BY <1>1, <1>n, <2>2 DEF Shaped, Working, Targets
  <2>3. QED BY <2>1, <2>2
<1>3. k \in 1..n
  BY <1>1, <1>k, <1>n, <1>2
<1>4. QED BY <1>1, <1>k, <1>n, <1>3 DEF Target

LEMMA StartWritingStep ==
  ASSUME NamedInvariant, NEW p \in Process, StartWriting(p)
  PROVE  NamedInvariant'
<1>1. DOMAIN process = Process /\ FilesOK /\ RunOK(p)
  BY DEF NamedInvariant
<1>run. PICK run : run = process[p]
  OBVIOUS
<1>f. PICK f : f = Target(run)
  OBVIOUS
<1>next. PICK next : next = [run EXCEPT !.at = "writing", !.touched = TRUE]
  OBVIOUS
<1>2. /\ run.at = "saving" /\ original' = original /\ sanctioned' = sanctioned
      /\ disk' = [disk EXCEPT ![f] = Damaged] /\ process' = [process EXCEPT ![p] = next]
  BY <1>run, <1>f, <1>next DEF StartWriting
<1>3. Permitted(f)
  BY <1>1, <1>run, <1>f, <1>2, TargetPermitted
<1>damaged. PICK damaged : damaged = Damaged
  OBVIOUS
<1>4. FilesOK'
  BY <1>1, <1>2, <1>3, <1>damaged, WritingKeepsFiles
<1>5. process'[p] = next
  BY <1>1, <1>2
<1>6. RunOK(p)'
  BY <1>1, <1>run, <1>next, <1>2, <1>5 DEF RunOK, Idle, Permitted
<1>7. QED BY <1>2, <1>4, <1>6, OneRuns

LEMMA FinishWritingStep ==
  ASSUME NamedInvariant, NEW p \in Process, FinishWriting(p)
  PROVE  NamedInvariant'
<1>1. DOMAIN process = Process /\ FilesOK /\ RunOK(p)
  BY DEF NamedInvariant
<1>run. PICK run : run = process[p]
  OBVIOUS
<1>f. PICK f : f = Target(run)
  OBVIOUS
<1>w. PICK written : written = run.written + 1
  OBVIOUS
<1>next. PICK next :
           next = IF written < Len(run.results)
                  THEN [run EXCEPT !.written = written, !.at = "saving"]
                  ELSE [run EXCEPT !.written = written, !.at = "ended", !.outcome = "success"]
  OBVIOUS
<1>2. /\ run.at = "writing" /\ original' = original /\ sanctioned' = sanctioned
      /\ \E found : disk' = [disk EXCEPT ![f] = found]
  BY <1>run, <1>f DEF FinishWriting
<1>3. process' = [process EXCEPT ![p] = next]
  <2>1. process' = [process EXCEPT ![p] =
          IF written < Len(run.results)
          THEN [run EXCEPT !.written = written, !.at = "saving"]
          ELSE Ended([run EXCEPT !.written = written], "success")]
    BY <1>run, <1>w DEF FinishWriting
  <2>2. Ended([run EXCEPT !.written = written], "success") =
          [run EXCEPT !.written = written, !.at = "ended", !.outcome = "success"]
    BY DEF Ended
  <2>3. QED BY <1>next, <2>1, <2>2
<1>4. Permitted(f)
  BY <1>1, <1>run, <1>f, <1>2, TargetPermitted
<1>5. FilesOK'
  <2>1. PICK found : disk' = [disk EXCEPT ![f] = found]
    BY <1>2
  <2>2. QED BY <1>1, <1>2, <1>4, <2>1, WritingKeepsFiles
<1>6. process'[p] = next
  BY <1>1, <1>3
<1>7. written \in Nat /\ DOMAIN run = DOMAIN Idle
  BY <1>1, <1>run, <1>w, <1>2 DEF RunOK
<1>8. RunOK(p)'
  <2>1. CASE written < Len(run.results)
    <3>1. next = [run EXCEPT !.written = written, !.at = "saving"]
      BY <1>next, <2>1
    <3>2. QED BY <1>1, <1>run, <1>2, <1>6, <1>7, <2>1, <3>1 DEF RunOK, Idle, Permitted
  <2>2. CASE ~(written < Len(run.results))
    <3>1. next = [run EXCEPT !.written = written, !.at = "ended", !.outcome = "success"]
      BY <1>next, <2>2
    <3>2. QED BY <1>6, <1>7, <3>1 DEF RunOK, Idle
  <2>3. QED BY <2>1, <2>2
<1>9. QED BY <1>2, <1>3, <1>5, <1>8, OneRuns

LEMMA FailingSteps ==
  ASSUME NamedInvariant, NEW p \in Process, WriteFails(p) \/ Kill(p)
  PROVE  NamedInvariant'
<1>1. RunOK(p) /\ disk' = disk /\ original' = original /\ sanctioned' = sanctioned
  BY DEF NamedInvariant, WriteFails, Kill
<1>2. CASE WriteFails(p)
  <2>1. PICK next : next = Ended(process[p], "save")
    OBVIOUS
  <2>2. process' = [process EXCEPT ![p] = next] /\ process[p].at \in {"saving", "writing"}
    BY <1>2, <2>1 DEF WriteFails
  <2>3. QED BY <1>1, <2>1, <2>2, EndingSteps
<1>3. CASE Kill(p)
  <2>1. PICK next : next = Ended(process[p], "killed")
    OBVIOUS
  <2>2. process' = [process EXCEPT ![p] = next] /\ process[p].at \notin {"idle", "ended"}
    BY <1>3, <2>1 DEF Kill
  <2>3. process[p].at \in {"entered", "guarding", "opening", "operating", "saving", "writing"}
    BY <1>1, <2>2 DEF RunOK
  <2>4. QED BY <1>1, <2>1, <2>2, <2>3, EndingSteps
<1>4. QED BY <1>2, <1>3

LEMMA NamedInvariantInductive == NamedInvariant /\ [Next]_vars => NamedInvariant'
<1> SUFFICES ASSUME NamedInvariant, [Next]_vars PROVE NamedInvariant'
  OBVIOUS
<1>1. CASE UNCHANGED vars
  BY <1>1 DEF vars, NamedInvariant, FilesOK, RunOK, Permitted
<1>2. ASSUME NEW p \in Process, Enter(p) \/ Return(p) PROVE NamedInvariant'
  BY <1>2, StartingSteps
<1>3. ASSUME NEW p \in Process, Dispatch(p) PROVE NamedInvariant'
  BY <1>3, DispatchStep
<1>4. ASSUME NEW p \in Process, Guard(p) PROVE NamedInvariant'
  BY <1>4, GuardStep
<1>5. ASSUME NEW p \in Process, Open(p) PROVE NamedInvariant'
  BY <1>5, OpenStep
<1>6. ASSUME NEW p \in Process, Operate(p) PROVE NamedInvariant'
  BY <1>6, OperateStep
<1>7. ASSUME NEW p \in Process, StartWriting(p) PROVE NamedInvariant'
  BY <1>7, StartWritingStep
<1>8. ASSUME NEW p \in Process, FinishWriting(p) PROVE NamedInvariant'
  BY <1>8, FinishWritingStep
<1>9. ASSUME NEW p \in Process, WriteFails(p) \/ Kill(p) PROVE NamedInvariant'
  BY <1>9, FailingSteps
<1>10. QED BY <1>1, <1>2, <1>3, <1>4, <1>5, <1>6, <1>7, <1>8, <1>9 DEF Next

\* Whatever runs, fails or is killed, in whatever order, a file that was there
\* at first changes only when a command named it to be overwritten, and no
\* refusal (check_output, prepare_outputs, open, the ranges) changes any.
THEOREM FilesChangeAsNamed == Spec => []FilesChangeOnlyAsNamed
<1>1. NamedInvariant => FilesChangeOnlyAsNamed
  BY DEF NamedInvariant, FilesOK, RunOK, FilesChangeOnlyAsNamed, RefusalsTouchNothing
<1>2. QED BY <1>1, NamedInitially, NamedInvariantInductive, PTL DEF Spec

-----------------------------------------------------------------------------
\* Induction, for the set of the numbers that something holds of; and functions
\* defined by recursion over 0..n, which exist when each value is computed by a
\* function from the one before.

LEMMA EveryNumber ==
  ASSUME NEW T, 0 \in T, \A n \in Nat : n \in T => n + 1 \in T
  PROVE  \A n \in Nat : n \in T
<1> SUFFICES ASSUME NEW k \in Nat, k \notin T
             PROVE  FALSE
  OBVIOUS
<1> DEFINE bad == {n \in Nat : n \notin T}
           R == OpToRel(<, Nat)
<1>1. \A x, y \in Nat : <<x, y>> \in R <=> x < y
  BY DEF OpToRel
<1>2. IsWellFoundedOn(R, Nat)
  BY NatLessThanWellFounded
<1>3. bad \in SUBSET Nat /\ bad # {}
  OBVIOUS
<1> HIDE DEF R, bad
<1>4. PICK x \in bad : \A y \in bad : ~ (<<y, x>> \in R)
  BY <1>2, <1>3, WFMin
<1> USE DEF bad
<1>5. x \in Nat /\ x # 0 /\ x \notin T
  OBVIOUS
<1>6. x - 1 \in Nat /\ x - 1 < x
  BY <1>5
<1>7. x - 1 \notin bad
  BY <1>1, <1>4, <1>5, <1>6
<1>8. x - 1 \in T
  BY <1>6, <1>7
<1>9. QED BY <1>5, <1>6, <1>8

Unrolls(X, n, base, G, f) ==
  f \in [0..n -> X] /\ f[0] = base /\ \A i \in 1..n : f[i] = G[i][f[i - 1]]

LEMMA Unrolling ==
  ASSUME NEW X, NEW n \in Nat, NEW base \in X, NEW G, G \in [1..n -> [X -> X]]
  PROVE  \E f : Unrolls(X, n, base, G, f)
<1> DEFINE Built(k, f) == /\ f \in [0..k -> X] /\ f[0] = base
                          /\ \A i \in 1..k : f[i] = G[i][f[i - 1]]
           T == {k \in Nat : k <= n => \E f : Built(k, f)}
<1>1. 0 \in T
  <2> DEFINE f == [i \in 0..0 |-> base]
  <2>1. Built(0, f)
    OBVIOUS
  <2> HIDE DEF f, Built
  <2>2. QED BY <2>1
<1>2. ASSUME NEW k \in Nat, k \in T PROVE k + 1 \in T
  <2> SUFFICES ASSUME k + 1 <= n PROVE \E f : Built(k + 1, f)
    OBVIOUS
  <2>1. k <= n /\ k + 1 \in 1..n
    OBVIOUS
  <2>2. PICK f : Built(k, f)
    BY <1>2, <2>1
  <2>3. f[k] \in X
    BY <2>2
  <2> DEFINE last == G[k + 1][f[k]]
             g == [i \in 0..(k + 1) |-> IF i = k + 1 THEN last ELSE f[i]]
  <2>4. last \in X
    BY <2>1, <2>3
  <2> HIDE DEF last
  <2>5. \A i \in 0..k : i \in 0..(k + 1) /\ i # k + 1 /\ f[i] \in X /\ g[i] = f[i]
    BY <2>2
  <2>6. g \in [0..(k + 1) -> X] /\ g[k + 1] = last
    BY <2>2, <2>4
  <2> HIDE DEF g
  <2>7. g[0] = base
    BY <2>2, <2>5
  <2>8. ASSUME NEW i \in 1..(k + 1) PROVE g[i] = G[i][g[i - 1]]
    <3>1. i - 1 \in 0..k /\ g[i - 1] = f[i - 1]
      BY <2>5
    <3>2. CASE i = k + 1
      BY <2>6, <3>1, <3>2 DEF last
    <3>3. CASE i # k + 1
      <4>1. i \in 1..k /\ i \in 0..k
        BY <3>3
      <4>2. f[i] = G[i][f[i - 1]]
        BY <2>2, <4>1
      <4>3. QED BY <2>5, <3>1, <4>1, <4>2
    <3>4. QED BY <3>2, <3>3
  <2>9. QED BY <2>6, <2>7, <2>8
<1> HIDE DEF T
<1>3. n \in T
  BY <1>1, <1>2, EveryNumber
<1>4. QED BY <1>3 DEF T, Unrolls

-----------------------------------------------------------------------------
\* Scanning a line

Names(allowed) == allowed \cup Switches
Scanning(allowed) ==
  [positionals : Seq(Text), flags : Seq(Names(allowed) \X (Text \cup {NoValue})),
   awaiting : allowed \cup {NoFlag}, ended : BOOLEAN, misused : BOOLEAN]

\* Each flag is given once, and what a flag but a switch is given is a text.
Given(flags, name) == \E i \in 1..Len(flags) : flags[i][1] = name
FlagsOK(flags, allowed) ==
  /\ flags \in Seq(Names(allowed) \X (Text \cup {NoValue}))
  /\ \A i \in 1..Len(flags) : flags[i][1] \in Switches \/ flags[i][2] \in Text
  /\ \A i, j \in 1..Len(flags) : flags[i][1] = flags[j][1] => i = j
LineOK(line, allowed) ==
  /\ line \in Scanning(allowed)
  /\ FlagsOK(line.flags, allowed)
  /\ line.awaiting # NoFlag => ~Given(line.flags, line.awaiting)

LEMMA GivenAmongFlags ==
  ASSUME NEW allowed, NEW line, LineOK(line, allowed), NEW name
  PROVE  IsGiven(line, name) <=> Given(line.flags, name)
<1>1. DOMAIN line.flags = 1..Len(line.flags)
  BY LenProperties DEF LineOK, FlagsOK
<1>2. QED BY <1>1 DEF IsGiven, Given

LEMMA FlagsGrow ==
  ASSUME NEW allowed, NEW flags, FlagsOK(flags, allowed),
         NEW name \in Names(allowed), NEW value \in Text \cup {NoValue},
         name \in Switches \/ value \in Text, ~Given(flags, name)
  PROVE  LET more == Append(flags, <<name, value>>)
         IN  /\ FlagsOK(more, allowed) /\ Len(more) = Len(flags) + 1
             /\ \A other : Given(more, other) <=> Given(flags, other) \/ other = name
<1> DEFINE Flag == Names(allowed) \X (Text \cup {NoValue})
           n == Len(flags)
<1>pair. PICK pair \in Flag : pair = <<name, value>> /\ pair[1] = name /\ pair[2] = value
  <2> WITNESS <<name, value>> \in Flag
  <2>1. QED OBVIOUS
<1>more. PICK more : more = Append(flags, pair)
  OBVIOUS
<1>1. flags \in Seq(Flag)
  BY DEF FlagsOK
<1> HIDE DEF Flag
<1>size. n \in Nat
  BY <1>1, LenProperties
<1>2. /\ more \in Seq(Flag) /\ Len(more) = n + 1
      /\ \A i \in 1..n : more[i] = flags[i]
      /\ more[n + 1] = pair
  BY <1>1, <1>more, AppendProperties
<1> HIDE DEF n
<1>3. \A i \in 1..(n + 1) : i \in 1..n \/ i = n + 1
  BY <1>size
<1>4. \A i \in 1..n : i \in 1..(n + 1)
  BY <1>size
<1>5. n + 1 \in 1..(n + 1)
  BY <1>size
<1>6. \A other : Given(more, other) <=> Given(flags, other) \/ other = name
  BY <1>pair, <1>2, <1>3, <1>4, <1>5 DEF Given, n
<1>7. \A i \in 1..(n + 1) : more[i][1] \in Switches \/ more[i][2] \in Text
  <2>1. ASSUME NEW i \in 1..n PROVE more[i][1] \in Switches \/ more[i][2] \in Text
    BY <1>2 DEF FlagsOK, n
  <2>2. more[n + 1][1] \in Switches \/ more[n + 1][2] \in Text
    BY <1>pair, <1>2
  <2>3. QED BY <1>3, <2>1, <2>2
<1>8. ASSUME NEW i \in 1..(n + 1), NEW j \in 1..(n + 1), more[i][1] = more[j][1]
      PROVE  i = j
  <2>1. \A k \in 1..n : more[k][1] # name
    BY <1>2 DEF Given, n
  <2>2. more[n + 1][1] = name
    BY <1>pair, <1>2
  <2>3. CASE i \in 1..n /\ j \in 1..n
    <3>1. flags[i][1] = flags[j][1]
      BY <1>2, <1>8, <2>3
    <3>2. QED BY <2>3, <3>1 DEF FlagsOK, n
  <2>4. CASE i = n + 1
    BY <1>3, <1>8, <2>1, <2>2, <2>4
  <2>5. CASE j = n + 1
    BY <1>3, <1>8, <2>1, <2>2, <2>5
  <2>6. QED BY <1>3, <2>3, <2>4, <2>5
<1>9. FlagsOK(more, allowed)
  BY <1>2, <1>7, <1>8 DEF FlagsOK, Flag
<1>10. more = Append(flags, <<name, value>>)
  BY <1>pair, <1>more
<1>11. QED BY <1>2, <1>6, <1>9, <1>10 DEF n

\* A flag that takes a value is no switch, and has a name.
LEMMA ItemKeepsLine ==
  ASSUME NEW allowed, NoFlag \notin allowed, allowed \cap Switches = {},
         NEW line, LineOK(line, allowed), NEW t \in Text
  PROVE  LineOK(ScanItem(line, t, allowed), allowed)
<1>1. /\ line.positionals \in Seq(Text) /\ FlagsOK(line.flags, allowed)
      /\ line.awaiting \in allowed \cup {NoFlag}
      /\ line.awaiting # NoFlag => ~Given(line.flags, line.awaiting)
      /\ line.ended \in BOOLEAN /\ line.misused \in BOOLEAN
      /\ line \in Scanning(allowed)
  BY DEF LineOK, Scanning
<1>2. LineOK(Misused(line), allowed)
  BY DEF LineOK, Misused, Scanning
<1>3. LineOK([line EXCEPT !.positionals = Append(@, t)], allowed)
  <2>1. Append(line.positionals, t) \in Seq(Text)
    BY <1>1, AppendProperties
  <2>2. QED BY <1>1, <2>1 DEF LineOK, Scanning
<1>4. ASSUME NEW name \in Names(allowed), NEW value \in Text \cup {NoValue},
             name \in Switches \/ value \in Text, ~IsGiven(line, name)
      PROVE  LineOK(WithFlag(line, name, value), allowed)
  <2>more. PICK more : more = Append(line.flags, <<name, value>>)
    OBVIOUS
  <2>1. ~Given(line.flags, name)
    BY <1>4, GivenAmongFlags
  <2>2. FlagsOK(more, allowed)
    BY <1>1, <1>4, <2>more, <2>1, FlagsGrow
  <2>3. WithFlag(line, name, value) = [line EXCEPT !.flags = more, !.awaiting = NoFlag]
    BY <2>more DEF WithFlag
  <2>4. QED BY <1>1, <2>2, <2>3 DEF LineOK, Scanning, FlagsOK
<1>5. LineOK(ScanFlag(line, t, allowed), allowed)
  <2>1. CASE IsGiven(line, t) \/ t \notin allowed \cup Switches
    BY <1>2, <2>1 DEF ScanFlag
  <2>2. CASE ~(IsGiven(line, t) \/ t \notin allowed \cup Switches) /\ t \in Switches
    BY <1>4, <2>2 DEF ScanFlag, Names
  <2>3. CASE ~(IsGiven(line, t) \/ t \notin allowed \cup Switches) /\ t \notin Switches
    <3>1. ScanFlag(line, t, allowed) = [line EXCEPT !.awaiting = t]
      BY <2>3 DEF ScanFlag
    <3>2. ~Given(line.flags, t) /\ t \in allowed
      BY <2>3, GivenAmongFlags
    <3>3. QED BY <1>1, <3>1, <3>2 DEF LineOK, Scanning
  <2>4. QED BY <2>1, <2>2, <2>3
<1>6. ASSUME t \in DOMAIN Inline
      PROVE  LineOK(ScanInline(line, Inline[t][1], Inline[t][2], allowed), allowed)
  <2>1. CASE IsGiven(line, Inline[t][1]) \/ Inline[t][1] \notin allowed
    BY <1>2, <2>1 DEF ScanInline
  <2>2. CASE ~(IsGiven(line, Inline[t][1]) \/ Inline[t][1] \notin allowed)
    <3>1. Inline[t][1] \in Names(allowed) /\ Inline[t][2] \in Text
      BY <1>6, <2>2, CommandArgsAssumption DEF Names
    <3>2. QED BY <1>4, <2>2, <3>1 DEF ScanInline
  <2>3. QED BY <2>1, <2>2
<1>7. CASE line.misused
  BY <1>7 DEF ScanItem
<1>8. CASE ~line.misused /\ line.ended
  BY <1>3, <1>8 DEF ScanItem
<1>9. CASE ~line.misused /\ ~line.ended /\ line.awaiting # NoFlag
  <2>1. CASE StartsAFlag(t)
    BY <1>2, <1>9, <2>1 DEF ScanItem
  <2>2. CASE ~StartsAFlag(t)
    <3>1. line.awaiting \in Names(allowed) /\ ~IsGiven(line, line.awaiting)
      BY <1>1, <1>9, GivenAmongFlags DEF Names
    <3>2. LineOK(WithFlag(line, line.awaiting, t), allowed)
      BY <1>4, <3>1
    <3>3. QED BY <1>9, <2>2, <3>2 DEF ScanItem
  <2>3. QED BY <2>1, <2>2
<1>10. CASE ~line.misused /\ ~line.ended /\ line.awaiting = NoFlag
  <2>1. CASE t = "--"
    <3>1. ScanItem(line, t, allowed) = [line EXCEPT !.ended = TRUE]
      BY <1>10, <2>1 DEF ScanItem
    <3>2. QED BY <1>1, <3>1 DEF LineOK, Scanning
  <2>2. CASE t # "--" /\ t \in Dashed
    BY <1>5, <1>10, <2>2 DEF ScanItem
  <2>3. CASE t # "--" /\ t \notin Dashed /\ t \in DOMAIN Inline
    BY <1>6, <1>10, <2>3 DEF ScanItem
  <2>4. CASE t # "--" /\ t \notin Dashed /\ t \notin DOMAIN Inline
    BY <1>3, <1>10, <2>4 DEF ScanItem
  <2>5. QED BY <2>1, <2>2, <2>3, <2>4
<1>11. QED BY <1>1, <1>7, <1>8, <1>9, <1>10

\* What a line accounts for so far, in items: a flag and its value are two.
One(given) == IF given THEN 1 ELSE 0
Forces(line) == One(IsGiven(line, "--force"))
Waits(line) == One(line.awaiting # NoFlag)
Ends(line) == One(line.ended)
Weight(line) ==
  Len(line.positionals) + 2 * Len(line.flags) - Forces(line) + Waits(line) + Ends(line)

\* What an item adds: itself, and once more if it is a flag with its value. It
\* is read for what it is until a bare "--" was met.
Weighed(line, t, next) ==
  /\ ~line.misused
  /\ Weight(next) = Weight(line) + 1 + One(~line.ended /\ t \in DOMAIN Inline)
  /\ next.ended <=> line.ended \/ t = "--"
  /\ IsGiven(next, "--force") <=> IsGiven(line, "--force") \/ (~line.ended /\ t = "--force")
  /\ IsGiven(line, "--force") => line.ended \/ t # "--force"

LEMMA WeightOf ==
  ASSUME NEW allowed, NEW line, LineOK(line, allowed)
  PROVE  /\ Weight(line) \in Int
         /\ Len(line.positionals) \in Nat /\ Len(line.flags) \in Nat
         /\ Weight(line) = Len(line.positionals) + 2 * Len(line.flags)
              - Forces(line) + Waits(line) + Ends(line)
         /\ Forces(line) \in {0, 1} /\ Waits(line) \in {0, 1} /\ Ends(line) \in {0, 1}
<1>1. Len(line.positionals) \in Nat /\ Len(line.flags) \in Nat
  BY LenProperties DEF LineOK, Scanning, FlagsOK
<1>2. Forces(line) \in {0, 1} /\ Waits(line) \in {0, 1} /\ Ends(line) \in {0, 1}
  BY DEF Forces, Waits, Ends, One
<1>3. QED BY SMTT(30), <1>1, <1>2 DEF Weight

LEMMA ItemIsWeighed ==
  ASSUME NEW allowed, NoFlag \notin allowed, allowed \cap Switches = {},
         NEW line, LineOK(line, allowed), NEW t \in Text,
         NEW next, next = ScanItem(line, t, allowed), ~next.misused
  PROVE  Weighed(line, t, next)
<1>1. /\ line.positionals \in Seq(Text) /\ FlagsOK(line.flags, allowed)
      /\ line.awaiting \in allowed \cup {NoFlag}
      /\ line.awaiting # NoFlag => ~Given(line.flags, line.awaiting)
      /\ line.ended \in BOOLEAN /\ line.misused \in BOOLEAN
      /\ line \in Scanning(allowed)
  BY DEF LineOK, Scanning
<1>2. LineOK(next, allowed)
  BY ItemKeepsLine
<1>3. "--force" \notin allowed /\ "--force" \in Switches
  BY DEF Switches
<1>4. /\ t = "--" \/ t = "--force" => t \in Dashed
      /\ t \in Dashed => t \notin DOMAIN Inline
  BY CommandArgsAssumption
<1>5. ~line.misused
  BY DEF ScanItem
<1> DEFINE
  Adds(positionals, flags, forces, waits, ends) ==
    /\ Len(next.positionals) = Len(line.positionals) + positionals
    /\ Len(next.flags) = Len(line.flags) + flags
    /\ Forces(next) = Forces(line) + forces
    /\ Waits(next) = Waits(line) + waits
    /\ Ends(next) = Ends(line) + ends
  Forced(l) == IsGiven(l, "--force")
<1>6. ASSUME NEW p \in Int, NEW f \in Int, NEW g \in Int, NEW w \in Int, NEW e \in Int,
             Adds(p, f, g, w, e)
      PROVE  Weight(next) = Weight(line) + p + 2 * f - g + w + e
  <2>1. /\ Weight(line) = Len(line.positionals) + 2 * Len(line.flags)
                            - Forces(line) + Waits(line) + Ends(line)
        /\ Len(line.positionals) \in Nat /\ Len(line.flags) \in Nat
        /\ Forces(line) \in {0, 1} /\ Waits(line) \in {0, 1} /\ Ends(line) \in {0, 1}
    BY WeightOf
  <2>2. Weight(next) = Len(next.positionals) + 2 * Len(next.flags)
                         - Forces(next) + Waits(next) + Ends(next)
    BY <1>2, WeightOf
  <2>3. Weight(next) = (Len(line.positionals) + p) + 2 * (Len(line.flags) + f)
                         - (Forces(line) + g) + (Waits(line) + w) + (Ends(line) + e)
    BY <1>6, <2>2
  <2>4. PICK a, b \in Nat : a = Len(line.positionals) /\ b = Len(line.flags)
    BY <2>1
  <2>5. Forces(line) \in Int /\ Waits(line) \in Int /\ Ends(line) \in Int
    BY <2>1
  <2>6. PICK x \in Int, y \in Int, z \in Int : x = Forces(line) /\ y = Waits(line) /\ z = Ends(line)
    BY <2>5
  <2>7. (a + p) + 2 * (b + f) - (x + g) + (y + w) + (z + e)
          = (a + 2 * b - x + y + z) + p + 2 * f - g + w + e
    OBVIOUS
  <2>8. Weight(line) = a + 2 * b - x + y + z
    BY <2>1, <2>4, <2>6
  <2>9. Weight(next) = (a + p) + 2 * (b + f) - (x + g) + (y + w) + (z + e)
    BY <2>3, <2>4, <2>6
  <2>10. QED BY <2>7, <2>8, <2>9
<1>7. Weight(line) \in Int /\ Len(line.positionals) \in Nat /\ Len(line.flags) \in Nat
      /\ Forces(line) \in {0, 1} /\ Waits(line) \in {0, 1} /\ Ends(line) \in {0, 1}
  BY WeightOf

\* A positional.
<1>8. ASSUME next = [line EXCEPT !.positionals = Append(@, t)],
             line.ended \/ (t # "--" /\ t # "--force" /\ t \notin DOMAIN Inline)
      PROVE  Weighed(line, t, next)
  <2>1. /\ Len(next.positionals) = Len(line.positionals) + 1 /\ next.flags = line.flags
        /\ next.awaiting = line.awaiting /\ next.ended = line.ended
    BY <1>1, <1>8, AppendProperties DEF Scanning
  <2>2. Forced(next) <=> Forced(line)
    BY <2>1 DEF IsGiven
  <2>3. Adds(1, 0, 0, 0, 0)
    BY <1>7, <2>1, <2>2 DEF Forces, Waits, Ends, One
  <2> HIDE DEF Adds
  <2>4. Weight(next) = Weight(line) + 1 + 2 * 0 - 0 + 0 + 0
    BY <1>6, <2>3
  <2>5. Weight(next) = Weight(line) + 1 + One(~line.ended /\ t \in DOMAIN Inline)
    BY <1>7, <1>8, <2>4 DEF One
  <2>6. QED BY <1>5, <1>8, <2>1, <2>2, <2>5 DEF Weighed

\* A flag with its value, or a switch.
<1>9. ASSUME NEW name \in Names(allowed), NEW value \in Text \cup {NoValue},
             name \in Switches \/ value \in Text, ~IsGiven(line, name),
             next = WithFlag(line, name, value)
      PROVE  /\ Adds(0, 1, One(name = "--force"), 0 - Waits(line), 0)
             /\ next.ended = line.ended
             /\ Forced(next) <=> Forced(line) \/ name = "--force"
             /\ name = "--force" => ~Forced(line)
  <2>more. PICK more : more = Append(line.flags, <<name, value>>)
    OBVIOUS
  <2>1. ~Given(line.flags, name)
    BY <1>9, GivenAmongFlags
  <2>2. Len(more) = Len(line.flags) + 1
        /\ \A other : Given(more, other) <=> Given(line.flags, other) \/ other = name
    BY <1>1, <1>9, <2>more, <2>1, FlagsGrow
  <2>3. next = [line EXCEPT !.flags = more, !.awaiting = NoFlag]
    BY <1>9, <2>more DEF WithFlag
  <2>4. /\ next.positionals = line.positionals /\ next.flags = more
        /\ next.awaiting = NoFlag /\ next.ended = line.ended
    BY <1>1, <2>3 DEF Scanning
  <2>5. Forced(next) <=> Forced(line) \/ name = "--force"
    BY <1>2, <2>2, <2>4, GivenAmongFlags
  <2>6. name = "--force" => ~Forced(line)
    BY <1>9
  <2>7. Forces(next) = Forces(line) + One(name = "--force")
    BY <2>5, <2>6 DEF Forces, One
  <2>8. Waits(next) = 0 /\ Ends(next) = Ends(line)
    BY <2>4 DEF Waits, Ends, One
  <2>9. QED BY <1>7, <2>2, <2>4, <2>5, <2>6, <2>7, <2>8
<1>10. CASE line.ended
  <2>1. next = [line EXCEPT !.positionals = Append(@, t)]
    BY <1>5, <1>10 DEF ScanItem
  <2>2. QED BY <1>8, <1>10, <2>1
<1>11. CASE ~line.ended /\ line.awaiting # NoFlag
  <2>1. ~StartsAFlag(t) /\ next = WithFlag(line, line.awaiting, t)
    BY <1>1, <1>5, <1>11 DEF ScanItem, Misused, Scanning
  <2>2. t # "--" /\ t # "--force" /\ t \notin DOMAIN Inline
    BY <1>4, <2>1 DEF StartsAFlag
  <2>3. line.awaiting \in Names(allowed) /\ ~IsGiven(line, line.awaiting) /\ line.awaiting # "--force"
    BY <1>1, <1>3, <1>11, GivenAmongFlags DEF Names
  <2>4. /\ Adds(0, 1, One(line.awaiting = "--force"), 0 - Waits(line), 0)
        /\ next.ended = line.ended
        /\ Forced(next) <=> Forced(line)
    BY <1>9, <2>1, <2>3
  <2>5. Waits(line) = 1 /\ One(line.awaiting = "--force") = 0
    BY <1>11, <2>3 DEF Waits, One
  <2>6. Adds(0, 1, 0, 0 - 1, 0)
    BY <2>4, <2>5
  <2> HIDE DEF Adds
  <2>7. Weight(next) = Weight(line) + 0 + 2 * 1 - 0 + (0 - 1) + 0
    BY <1>6, <2>6
  <2>8. Weight(next) = Weight(line) + 1 + One(~line.ended /\ t \in DOMAIN Inline)
    BY <1>7, <2>2, <2>7 DEF One
  <2>9. QED BY <1>5, <1>11, <2>2, <2>4, <2>8 DEF Weighed
<1>12. CASE ~line.ended /\ line.awaiting = NoFlag /\ t = "--"
  <2>1. next = [line EXCEPT !.ended = TRUE]
    BY <1>5, <1>12 DEF ScanItem
  <2>2. /\ next.positionals = line.positionals /\ next.flags = line.flags
        /\ next.awaiting = line.awaiting /\ next.ended
    BY <1>1, <2>1 DEF Scanning
  <2>3. Forced(next) <=> Forced(line)
    BY <2>2 DEF IsGiven
  <2>4. Ends(next) = 1 /\ Ends(line) = 0
    BY <1>12, <2>2 DEF Ends, One
  <2>5. Adds(0, 0, 0, 0, 1)
    BY <1>7, <2>2, <2>3, <2>4 DEF Forces, Waits, One
  <2> HIDE DEF Adds
  <2>6. Weight(next) = Weight(line) + 0 + 2 * 0 - 0 + 0 + 1
    BY <1>6, <2>5
  <2>7. t \notin DOMAIN Inline /\ t # "--force"
    BY <1>4, <1>12
  <2>8. Weight(next) = Weight(line) + 1 + One(~line.ended /\ t \in DOMAIN Inline)
    BY <1>7, <2>6, <2>7 DEF One
  <2>9. QED BY <1>5, <1>12, <2>2, <2>3, <2>7, <2>8 DEF Weighed
<1>13. CASE ~line.ended /\ line.awaiting = NoFlag /\ t # "--" /\ t \in Dashed
  <2>1. next = ScanFlag(line, t, allowed)
    BY <1>5, <1>13 DEF ScanItem
  <2>2. ~IsGiven(line, t) /\ t \in Names(allowed)
    BY <1>1, <2>1 DEF ScanFlag, Misused, Scanning, Names
  <2>3. t \notin DOMAIN Inline
    BY <1>4, <1>13
  <2>4. CASE t \in Switches
    <3>1. next = WithFlag(line, t, NoValue) /\ t = "--force"
      BY <2>1, <2>2, <2>4 DEF ScanFlag, Names, Switches
    <3>2. /\ Adds(0, 1, One(t = "--force"), 0 - Waits(line), 0)
          /\ next.ended = line.ended
          /\ Forced(next) <=> Forced(line) \/ t = "--force"
          /\ t = "--force" => ~Forced(line)
      BY <1>9, <2>2, <2>4, <3>1
    <3>3. Waits(line) = 0 /\ One(t = "--force") = 1
      BY <1>13, <3>1 DEF Waits, One
    <3>4. Adds(0, 1, 1, 0 - 0, 0)
      BY <3>2, <3>3
    <3> HIDE DEF Adds
    <3>5. Weight(next) = Weight(line) + 0 + 2 * 1 - 1 + (0 - 0) + 0
      BY <1>6, <3>4
    <3>6. Weight(next) = Weight(line) + 1 + One(~line.ended /\ t \in DOMAIN Inline)
      BY <1>7, <2>3, <3>5 DEF One
    <3>7. QED BY <1>5, <1>13, <2>2, <3>1, <3>2, <3>6 DEF Weighed
  <2>5. CASE t \notin Switches
    <3>1. next = [line EXCEPT !.awaiting = t]
      BY <2>1, <2>2, <2>5 DEF ScanFlag, Names
    <3>2. /\ next.positionals = line.positionals /\ next.flags = line.flags
          /\ next.awaiting = t /\ next.ended = line.ended
      BY <1>1, <3>1 DEF Scanning
    <3>3. Forced(next) <=> Forced(line)
      BY <3>2 DEF IsGiven
    <3>4. t # NoFlag /\ t # "--force"
      BY <1>3, <2>2, <2>5 DEF Names
    <3>5. Waits(next) = 1 /\ Waits(line) = 0
      BY <1>13, <3>2, <3>4 DEF Waits, One
    <3>6. Adds(0, 0, 0, 1, 0)
      BY <1>7, <3>2, <3>3, <3>5 DEF Forces, Ends, One
    <3> HIDE DEF Adds
    <3>7. Weight(next) = Weight(line) + 0 + 2 * 0 - 0 + 1 + 0
      BY <1>6, <3>6
    <3>8. Weight(next) = Weight(line) + 1 + One(~line.ended /\ t \in DOMAIN Inline)
      BY <1>7, <2>3, <3>7 DEF One
    <3>9. QED BY <1>5, <1>13, <3>2, <3>3, <3>4, <3>8 DEF Weighed
  <2>6. QED BY <2>4, <2>5
<1>14. CASE ~line.ended /\ line.awaiting = NoFlag /\ t # "--" /\ t \notin Dashed /\ t \in DOMAIN Inline
  <2>name. PICK name : name = Inline[t][1]
    OBVIOUS
  <2>1. next = ScanInline(line, name, Inline[t][2], allowed)
    BY <1>5, <1>14, <2>name DEF ScanItem
  <2>2. ~IsGiven(line, name) /\ name \in allowed
    BY <1>1, <2>1 DEF ScanInline, Misused, Scanning
  <2>3. next = WithFlag(line, name, Inline[t][2]) /\ Inline[t][2] \in Text
    BY <1>14, <2>1, <2>2, CommandArgsAssumption DEF ScanInline
  <2>4. name \in Names(allowed) /\ name # "--force" /\ t # "--force"
    BY <1>3, <1>4, <1>14, <2>2 DEF Names
  <2>5. /\ Adds(0, 1, One(name = "--force"), 0 - Waits(line), 0)
        /\ next.ended = line.ended
        /\ Forced(next) <=> Forced(line)
    BY <1>9, <2>2, <2>3, <2>4
  <2>6. Waits(line) = 0 /\ One(name = "--force") = 0
    BY <1>14, <2>4 DEF Waits, One
  <2>7. Adds(0, 1, 0, 0 - 0, 0)
    BY <2>5, <2>6
  <2> HIDE DEF Adds
  <2>8. Weight(next) = Weight(line) + 0 + 2 * 1 - 0 + (0 - 0) + 0
    BY <1>6, <2>7
  <2>9. Weight(next) = Weight(line) + 1 + One(~line.ended /\ t \in DOMAIN Inline)
    BY <1>7, <1>14, <2>8 DEF One
  <2>10. QED BY <1>5, <1>14, <2>4, <2>5, <2>9 DEF Weighed
<1>15. CASE ~line.ended /\ line.awaiting = NoFlag /\ t # "--" /\ t \notin Dashed /\ t \notin DOMAIN Inline
  <2>1. next = [line EXCEPT !.positionals = Append(@, t)]
    BY <1>5, <1>15 DEF ScanItem
  <2>2. t # "--force"
    BY <1>4, <1>15
  <2>3. QED BY <1>8, <1>15, <2>1, <2>2
<1>16. QED BY <1>10, <1>11, <1>12, <1>13, <1>14, <1>15

\* How many of the first m items, those before a bare "--", are in T.
FlaggedTo(argv, m) == {i \in 1..m : \A j \in 1..i : argv[j] # "--"}
Tally(argv, m, T) == Cardinality({i \in FlaggedTo(argv, m) : argv[i] \in T})

LEMMA TallyStep ==
  ASSUME NEW argv, NEW m \in Nat, NEW T
  PROVE  /\ Tally(argv, m, T) \in Nat
         /\ Tally(argv, m + 1, T) =
              Tally(argv, m, T)
              + One((\A j \in 1..(m + 1) : argv[j] # "--") /\ argv[m + 1] \in T)
<1> DEFINE before == {i \in FlaggedTo(argv, m) : argv[i] \in T}
           now == {i \in FlaggedTo(argv, m + 1) : argv[i] \in T}
           counts == (\A j \in 1..(m + 1) : argv[j] # "--") /\ argv[m + 1] \in T
<1>1. IsFiniteSet(1..m) /\ before \in SUBSET (1..m)
  BY FS_Interval DEF FlaggedTo
<1>2. IsFiniteSet(before) /\ m + 1 \notin before
  BY <1>1, FS_Subset
<1>3. 1..(m + 1) = 1..m \cup {m + 1}
  OBVIOUS
<1>4. now = IF counts THEN before \cup {m + 1} ELSE before
  <2>1. FlaggedTo(argv, m + 1) = FlaggedTo(argv, m) \cup
          {i \in {m + 1} : \A j \in 1..(m + 1) : argv[j] # "--"}
    BY <1>3 DEF FlaggedTo
  <2>2. QED BY <2>1
<1> HIDE DEF before, now, counts
<1>5. Cardinality(now) = Cardinality(before) + One(counts) /\ Cardinality(before) \in Nat
  <2>1. Cardinality(before) \in Nat
    BY <1>2, FS_CardinalityType
  <2>2. CASE counts
    BY <1>2, <1>4, <2>1, <2>2, FS_AddElement DEF One
  <2>3. CASE ~counts
    BY <1>4, <2>1, <2>3 DEF One
  <2>4. QED BY <2>1, <2>2, <2>3
<1>6. QED BY <1>5 DEF Tally, before, now, counts

LEMMA TallyEmpty ==
  ASSUME NEW argv, NEW T
  PROVE  Tally(argv, 0, T) = 0
<1>1. {i \in FlaggedTo(argv, 0) : argv[i] \in T} = {}
  BY DEF FlaggedTo
<1>2. QED BY <1>1, FS_EmptySet DEF Tally

\* Each line on the way is scanned from the one before.
LinesBetween(items, allowed, lines) ==
  /\ Scanned(items, allowed) =
       IF lines[Len(items)].awaiting # NoFlag
       THEN Misused(lines[Len(items)]) ELSE lines[Len(items)]
  /\ lines[0] = BlankLine
  /\ \A k \in 1..Len(items) : lines[k] = ScanItem(lines[k - 1], items[k], allowed)
  /\ \A k \in 0..Len(items) : LineOK(lines[k], allowed)

LEMMA LinesUnroll ==
  ASSUME NEW allowed, NoFlag \notin allowed, allowed \cap Switches = {},
         NEW items \in Seq(Text)
  PROVE  \E lines : LinesBetween(items, allowed, lines)
<1> DEFINE n == Len(items)
           X == {l \in Scanning(allowed) : LineOK(l, allowed)}
           G == [k \in 1..n |-> [l \in X |-> ScanItem(l, items[k], allowed)]]
           Step(f, k) == IF k = 0 THEN BlankLine ELSE ScanItem(f[k - 1], items[k], allowed)
           lines == CHOOSE f : f = [k \in 0..n |-> Step(f, k)]
<1>1. n \in Nat /\ \A k \in 1..n : items[k] \in Text
  BY LenProperties, ElementOfSeq
<1>2. BlankLine \in X
  <2>1. BlankLine \in Scanning(allowed)
    BY DEF BlankLine, Scanning
  <2>2. FlagsOK(<< >>, allowed)
    BY DEF FlagsOK
  <2>3. LineOK(BlankLine, allowed)
    BY <2>1, <2>2 DEF LineOK, BlankLine
  <2>4. QED BY <2>1, <2>3
<1>3. \A l \in X, k \in 1..n : ScanItem(l, items[k], allowed) \in X
  <2>1. \A l, k : l \in X /\ k \in 1..n => LineOK(ScanItem(l, items[k], allowed), allowed)
    BY <1>1, ItemKeepsLine
  <2>2. QED BY <2>1 DEF LineOK
<1>4. G \in [1..n -> [X -> X]]
  <2> HIDE DEF X, n
  <2>1. QED BY <1>3
<1>5. PICK g \in [0..n -> X] : g[0] = BlankLine /\ \A k \in 1..n : g[k] = G[k][g[k - 1]]
  <2>1. PICK base \in X : base = BlankLine
    BY <1>2
  <2>2. n \in Nat
    BY <1>1
  <2>n. PICK m \in Nat : m = n
    BY <2>2
  <2>x. PICK Y : Y = X
    OBVIOUS
  <2>g. PICK H : H = G
    OBVIOUS
  <2> HIDE DEF X, n, G, Step, lines
  <2>a. base \in Y /\ H \in [1..m -> [Y -> Y]]
    BY <1>4, <2>n, <2>x, <2>g
  <2>b. \E g : Unrolls(Y, m, base, H, g)
    BY <2>a, Unrolling
  <2>3. \E g \in [0..n -> X] : g[0] = base /\ \A k \in 1..n : g[k] = G[k][g[k - 1]]
    BY <2>b, <2>n, <2>x, <2>g DEF Unrolls
  <2>4. QED BY <2>1, <2>3
<1>6. \A k \in 0..n : g[k] = Step(g, k)
  <2> SUFFICES ASSUME NEW k \in 0..n, k # 0 PROVE g[k] = ScanItem(g[k - 1], items[k], allowed)
    BY <1>5
  <2>1. k \in 1..n /\ k - 1 \in 0..n
    BY <1>1
  <2>2. g[k - 1] \in X
    BY <1>5, <2>1
  <2>3. G[k][g[k - 1]] = ScanItem(g[k - 1], items[k], allowed)
    <3> HIDE DEF X, n
    <3>1. QED BY <2>1, <2>2
  <2>4. QED BY <1>5, <2>1, <2>3
<1>7. g = [k \in 0..n |-> Step(g, k)]
  <2> HIDE DEF X, n, Step
  <2>1. QED BY <1>5, <1>6
<1>8. lines = [k \in 0..n |-> Step(lines, k)]
  <2>1. \E f : f = [k \in 0..n |-> Step(f, k)]
    <3> HIDE DEF Step, n
    <3>1. QED BY <1>7, Zenon
  <2>2. QED BY <2>1
<1>9. \A k \in 0..n : lines[k] = Step(lines, k)
  BY <1>8
<1>10. Scanned(items, allowed) =
         IF lines[n].awaiting # NoFlag THEN Misused(lines[n]) ELSE lines[n]
  BY DEF Scanned
<1> HIDE DEF lines
<1>11. lines[0] = BlankLine /\ \A k \in 1..n : lines[k] = ScanItem(lines[k - 1], items[k], allowed)
  BY <1>1, <1>9
<1>12. \A k \in 0..n : LineOK(lines[k], allowed)
  <2> DEFINE T == {k \in Nat : k <= n => lines[k] \in X}
  <2>1. 0 \in T
    BY <1>2, <1>11
  <2>2. ASSUME NEW k \in Nat, k \in T PROVE k + 1 \in T
    <3> HIDE DEF X, n
    <3> SUFFICES ASSUME k + 1 <= n PROVE lines[k + 1] \in X
      OBVIOUS
    <3>1. k + 1 \in 1..n /\ lines[k] \in X
      BY <1>1, <2>2
    <3>2. lines[k + 1] = ScanItem(lines[k], items[k + 1], allowed)
      BY <1>11, <3>1
    <3>3. QED BY <1>3, <3>1, <3>2
  <2> HIDE DEF T
  <2>3. \A k \in Nat : k \in T
    BY <2>1, <2>2, EveryNumber
  <2>4. QED BY <1>1, <2>3 DEF T
<1>13. QED BY <1>10, <1>11, <1>12 DEF LinesBetween

\* What a line of items, the first of them the command, comes to.
Bare(argv, m) == \E j \in 1..m : argv[j] = "--"
Accounted(argv, m, line) ==
  /\ 1 + Weight(line) = m + Tally(argv, m, DOMAIN Inline)
  /\ Forces(line) = Tally(argv, m, {"--force"})
  /\ line.ended <=> Bare(argv, m)

LEMMA ItemIsAccounted ==
  ASSUME NEW argv, NEW m \in Nat, NEW line, NEW next, NEW t, t = argv[m + 1], t \in Text,
         Accounted(argv, m, line), Weighed(line, t, next),
         Weight(line) \in Int, Weight(next) \in Int,
         line.ended \in BOOLEAN, next.ended \in BOOLEAN
  PROVE  Accounted(argv, m + 1, next)
<1> DEFINE open == \A j \in 1..(m + 1) : argv[j] # "--"
<1>1. 1..(m + 1) = 1..m \cup {m + 1}
  OBVIOUS
<1>2. next.ended <=> Bare(argv, m + 1)
  BY <1>1 DEF Bare, Accounted, Weighed
<1>3. /\ t = "--" \/ t = "--force" => t \in Dashed
      /\ t \in Dashed => t \notin DOMAIN Inline
  BY CommandArgsAssumption
<1>4. (open /\ t \in DOMAIN Inline) <=> (~line.ended /\ t \in DOMAIN Inline)
  BY <1>1, <1>3 DEF Accounted, Bare
<1>5. (open /\ t \in {"--force"}) <=> (~line.ended /\ t = "--force")
  BY <1>1 DEF Accounted, Bare
<1> HIDE DEF open
<1>6. PICK inline \in Nat : inline = Tally(argv, m, DOMAIN Inline)
  BY TallyStep
<1>7. PICK forces \in Nat : forces = Tally(argv, m, {"--force"})
  BY TallyStep
<1>8. Tally(argv, m + 1, DOMAIN Inline) = inline + One(open /\ t \in DOMAIN Inline)
  BY <1>6, TallyStep DEF open
<1>9. Tally(argv, m + 1, {"--force"}) = forces + One(open /\ t \in {"--force"})
  BY <1>7, TallyStep DEF open
<1>10. 1 + Weight(next) = (m + 1) + Tally(argv, m + 1, DOMAIN Inline)
  <2>1. One(open /\ t \in DOMAIN Inline) = One(~line.ended /\ t \in DOMAIN Inline)
    BY <1>4 DEF One
  <2>2. PICK one \in {0, 1} : one = One(~line.ended /\ t \in DOMAIN Inline)
    BY DEF One
  <2>3. 1 + Weight(line) = m + inline
    BY <1>6 DEF Accounted
  <2>4. Weight(next) = Weight(line) + 1 + one
    BY <2>2 DEF Weighed
  <2>5. Tally(argv, m + 1, DOMAIN Inline) = inline + one
    BY <1>8, <2>1, <2>2
  <2>6. QED BY <2>3, <2>4, <2>5
<1>11. Forces(next) = Tally(argv, m + 1, {"--force"})
  <2>1. Forces(line) = forces
    BY <1>7 DEF Accounted
  <2>2. CASE ~line.ended /\ t = "--force"
    <3>1. ~IsGiven(line, "--force") /\ IsGiven(next, "--force")
      BY <2>2 DEF Weighed
    <3>2. forces = 0 /\ Forces(next) = 1
      BY <2>1, <3>1 DEF Forces, One
    <3>3. One(open /\ t \in {"--force"}) = 1
      BY <1>5, <2>2 DEF One
    <3>4. QED BY <1>9, <3>2, <3>3
  <2>3. CASE ~(~line.ended /\ t = "--force")
    <3>1. IsGiven(next, "--force") <=> IsGiven(line, "--force")
      BY <2>3 DEF Weighed
    <3>2. Forces(next) = forces
      BY <2>1, <3>1 DEF Forces, One
    <3>3. One(open /\ t \in {"--force"}) = 0
      BY <1>5, <2>3 DEF One
    <3>4. QED BY <1>9, <3>2, <3>3
  <2>4. QED BY <2>2, <2>3
<1>12. QED BY <1>2, <1>10, <1>11 DEF Accounted

LEMMA CommandIsAccounted ==
  ASSUME NEW argv, argv[1] \in DOMAIN ValueFlags
  PROVE  Accounted(argv, 1, BlankLine) /\ ~BlankLine.misused
<1>1. argv[1] \notin DOMAIN Inline /\ argv[1] \notin {"--", "--force"}
  BY CommandArgsAssumption DEF ValueFlags
<1>2. Tally(argv, 1, DOMAIN Inline) = 0
  <2>1. {i \in FlaggedTo(argv, 1) : argv[i] \in DOMAIN Inline} = {}
    BY <1>1 DEF FlaggedTo
  <2>2. QED BY <2>1, FS_EmptySet DEF Tally
<1>3. Tally(argv, 1, {"--force"}) = 0
  <2>1. {i \in FlaggedTo(argv, 1) : argv[i] \in {"--force"}} = {}
    BY <1>1 DEF FlaggedTo
  <2>2. QED BY <2>1, FS_EmptySet DEF Tally
<1>4. ~Bare(argv, 1)
  BY <1>1 DEF Bare
<1>5. ~IsGiven(BlankLine, "--force")
  BY DEF IsGiven, BlankLine
<1>6. Forces(BlankLine) = 0 /\ Waits(BlankLine) = 0 /\ Ends(BlankLine) = 0
  BY <1>5 DEF Forces, Waits, Ends, One, BlankLine
<1>7. Weight(BlankLine) = 0
  <2>1. Len(BlankLine.positionals) = 0 /\ Len(BlankLine.flags) = 0
    BY DEF BlankLine
  <2>2. QED BY <1>6, <2>1 DEF Weight
<1>8. QED BY <1>2, <1>3, <1>4, <1>6, <1>7 DEF Accounted, BlankLine

AllowedOK(allowed) == NoFlag \notin allowed /\ allowed \cap Switches = {}

LEMMA ValueFlagsAllowed ==
  ASSUME NEW c \in DOMAIN ValueFlags
  PROVE  AllowedOK(ValueFlags[c])
<1>1. c \in {"merge", "split", "rotate", "extract"}
  BY DEF ValueFlags
<1>2. ValueFlags[c] \in {{}, {"--at", "--out-a", "--out-b"},
                        {"--pages", "--degrees", "--out"}, {"--pages", "--out"}}
  BY <1>1 DEF ValueFlags
<1> HIDE DEF ValueFlags
<1>3. QED BY <1>2 DEF AllowedOK, NoFlag, Switches

LEMMA LineIsScanned ==
  ASSUME NEW argv \in Seq(Text), argv # << >>, argv[1] \in DOMAIN ValueFlags,
         NEW allowed, allowed = ValueFlags[argv[1]],
         NEW line, line = Scanned(Tail(argv), allowed), ~line.misused
  PROVE  /\ LineOK(line, allowed) /\ line.awaiting = NoFlag
         /\ Accounted(argv, Len(argv), line)
<1>1. PICK items \in Seq(Text) :
        /\ items = Tail(argv) /\ Len(items) = Len(argv) - 1
        /\ \A k \in 1..Len(items) : items[k] = argv[k + 1]
  BY HeadTailProperties
<1>2. PICK n \in Nat : n = Len(items)
  BY LenProperties
<1>3. \A k \in 1..n : items[k] \in Text
  BY <1>2, ElementOfSeq
<1>4. AllowedOK(allowed)
  BY ValueFlagsAllowed
<1>5. PICK lines : LinesBetween(items, allowed, lines)
  BY <1>4, LinesUnroll DEF AllowedOK
<1> DEFINE T == {k \in Nat : k <= n /\ ~lines[k].misused => Accounted(argv, k + 1, lines[k])}
<1>6. 0 \in T
  BY <1>5, CommandIsAccounted DEF LinesBetween
<1>7. ASSUME NEW k \in Nat, k \in T PROVE k + 1 \in T
  <2> SUFFICES ASSUME k + 1 <= n, ~lines[k + 1].misused
               PROVE  Accounted(argv, k + 2, lines[k + 1])
    OBVIOUS
  <2>1. k + 1 \in 1..n /\ k \in 0..n /\ k + 1 \in 0..n /\ (k + 1) - 1 = k
    OBVIOUS
  <2>2. LineOK(lines[k], allowed) /\ LineOK(lines[k + 1], allowed)
    BY <1>2, <1>5, <2>1 DEF LinesBetween
  <2>3. PICK t \in Text : t = items[k + 1] /\ t = argv[(k + 1) + 1]
    BY <1>1, <1>2, <1>3, <2>1
  <2>4. lines[k + 1] = ScanItem(lines[k], t, allowed)
    BY <1>2, <1>5, <2>1, <2>3 DEF LinesBetween
  <2>5. Weighed(lines[k], t, lines[k + 1])
    BY <1>4, <2>2, <2>4, ItemIsWeighed DEF AllowedOK
  <2>6. Accounted(argv, k + 1, lines[k])
    BY <1>7, <2>1, <2>5 DEF Weighed
  <2>7. /\ lines[k].ended \in BOOLEAN /\ lines[k + 1].ended \in BOOLEAN
        /\ Weight(lines[k]) \in Int /\ Weight(lines[k + 1]) \in Int
    BY <2>2, WeightOf DEF LineOK, Scanning
  <2> HIDE DEF T
  <2>8. Accounted(argv, (k + 1) + 1, lines[k + 1])
    <3>1. PICK m \in Nat : m = k + 1
      OBVIOUS
    <3>2. PICK before : before = lines[k]
      OBVIOUS
    <3>3. PICK next : next = lines[k + 1]
      OBVIOUS
    <3>4. Accounted(argv, m, before) /\ Weighed(before, t, next) /\ t = argv[m + 1]
      BY <2>3, <2>5, <2>6, <3>1, <3>2, <3>3
    <3>5. /\ before.ended \in BOOLEAN /\ next.ended \in BOOLEAN
          /\ Weight(before) \in Int /\ Weight(next) \in Int
      BY <2>7, <3>2, <3>3
    <3>6. Accounted(argv, m + 1, next)
      BY <3>4, <3>5, ItemIsAccounted
    <3>7. QED BY <3>1, <3>3, <3>6
  <2>9. QED BY <2>8
<1> HIDE DEF T
<1>8. n \in T
  BY <1>6, <1>7, EveryNumber
<1>9. lines[n].awaiting = NoFlag /\ line = lines[n]
  <2>1. line = IF lines[n].awaiting # NoFlag THEN Misused(lines[n]) ELSE lines[n]
    BY <1>1, <1>2, <1>5 DEF LinesBetween
  <2>2. PICK last \in Scanning(allowed) : last = lines[n]
    BY <1>2, <1>5 DEF LinesBetween, LineOK
  <2>3. Misused(last).misused
    BY <2>2 DEF Misused, Scanning
  <2>4. QED BY <2>1, <2>2, <2>3
<1>10. LineOK(line, allowed)
  BY <1>2, <1>5, <1>9 DEF LinesBetween
<1>11. Accounted(argv, n + 1, line)
  BY <1>8, <1>9 DEF T
<1>12. n + 1 = Len(argv)
  BY <1>1, <1>2
<1>13. QED BY <1>9, <1>10, <1>11, <1>12

-----------------------------------------------------------------------------
\* How many flags a line has: each name is given at most once, so as many as
\* there are names given.

Count(flags, names) == Cardinality({name \in names : Given(flags, name)})

LEMMA FlagsAreNames ==
  ASSUME NEW allowed, NEW flags, FlagsOK(flags, allowed)
  PROVE  Len(flags) = Count(flags, Names(allowed))
<1>1. PICK n \in Nat : n = Len(flags)
  BY LenProperties DEF FlagsOK
<1>2. \A i \in 1..n : flags[i][1] \in Names(allowed)
  <2>1. SUFFICES ASSUME NEW i \in 1..n PROVE flags[i][1] \in Names(allowed)
    OBVIOUS
  <2>2. flags[i] \in Names(allowed) \X (Text \cup {NoValue})
    BY <1>1, ElementOfSeq DEF FlagsOK
  <2>3. QED BY <2>2
<1> DEFINE given == {name \in Names(allowed) : Given(flags, name)}
           f == [i \in 1..n |-> flags[i][1]]
<1>3. f \in [1..n -> given]
  BY <1>1, <1>2 DEF Given
<1>4. \A name \in given : \E i \in 1..n : f[i] = name
  BY <1>1 DEF Given
<1>5. \A i, j \in 1..n : f[i] = f[j] => i = j
  BY <1>1 DEF FlagsOK
<1> HIDE DEF f, given
<1>6. ExistsBijection(1..n, given)
  <2>1. f \in Injection(1..n, given)
    BY <1>3, <1>5 DEF Injection, IsInjective
  <2>2. f \in Surjection(1..n, given)
    BY <1>3, <1>4 DEF Surjection
  <2>3. QED BY <2>1, <2>2 DEF ExistsBijection, Bijection
<1>7. Cardinality(given) = n
  BY <1>6, FS_CountingElements
<1>8. QED BY <1>1, <1>7 DEF Count, given

LEMMA CountNone ==
  ASSUME NEW flags
  PROVE  Count(flags, {}) = 0 /\ IsFiniteSet({name \in {} : Given(flags, name)})
BY FS_EmptySet DEF Count

LEMMA CountAdds ==
  ASSUME NEW flags, NEW names, NEW name, name \notin names, IsFiniteSet(names)
  PROVE  /\ IsFiniteSet(names \cup {name}) /\ Count(flags, names) \in Nat
         /\ Count(flags, names \cup {name}) = Count(flags, names) + One(Given(flags, name))
<1> DEFINE old == {other \in names : Given(flags, other)}
           new == {other \in names \cup {name} : Given(flags, other)}
<1>1. IsFiniteSet(old) /\ name \notin old
  BY FS_Subset
<1>2. new = IF Given(flags, name) THEN old \cup {name} ELSE old
  OBVIOUS
<1>3. IsFiniteSet(names \cup {name})
  BY FS_AddElement
<1> HIDE DEF old, new
<1>4. Cardinality(old) \in Nat
  BY <1>1, FS_CardinalityType
<1>5. CASE Given(flags, name)
  BY <1>1, <1>2, <1>3, <1>4, <1>5, FS_AddElement DEF Count, One, old, new
<1>6. CASE ~Given(flags, name)
  <2>1. Cardinality(new) = Cardinality(old) + One(Given(flags, name))
    BY <1>2, <1>4, <1>6 DEF One
  <2>2. QED BY <1>3, <1>4, <2>1 DEF Count, old, new
<1>7. QED BY <1>5, <1>6

LEMMA FlagsCounted ==
  ASSUME NEW flags
  PROVE  /\ FlagsOK(flags, {}) => Len(flags) = One(Given(flags, "--force"))
         /\ FlagsOK(flags, {"--at", "--out-a", "--out-b"}) =>
              Len(flags) = One(Given(flags, "--at")) + One(Given(flags, "--out-a"))
                + One(Given(flags, "--out-b")) + One(Given(flags, "--force"))
         /\ FlagsOK(flags, {"--pages", "--degrees", "--out"}) =>
              Len(flags) = One(Given(flags, "--pages")) + One(Given(flags, "--degrees"))
                + One(Given(flags, "--out")) + One(Given(flags, "--force"))
         /\ FlagsOK(flags, {"--pages", "--out"}) =>
              Len(flags) = One(Given(flags, "--pages")) + One(Given(flags, "--out"))
                + One(Given(flags, "--force"))
<1> DEFINE G(name) == One(Given(flags, name))
<1>0. \A name : G(name) \in {0, 1}
  BY DEF One
<1>1. IsFiniteSet({}) /\ Count(flags, {}) = 0
  BY FS_EmptySet, CountNone
<1>2. /\ \A a : Count(flags, {a}) = G(a) /\ IsFiniteSet({a})
      /\ \A a, b : a # b => Count(flags, {a, b}) = G(a) + G(b) /\ IsFiniteSet({a, b})
  <2>1. ASSUME NEW a PROVE Count(flags, {a}) = G(a) /\ IsFiniteSet({a})
    <3>1. {a} = {} \cup {a} /\ a \notin {}
      OBVIOUS
    <3> HIDE DEF G
    <3>2. Count(flags, {} \cup {a}) = Count(flags, {}) + G(a) /\ IsFiniteSet({} \cup {a})
      BY <1>1, <3>1, CountAdds DEF G
    <3>3. QED BY <1>0, <1>1, <3>1, <3>2
  <2>2. ASSUME NEW a, NEW b, a # b
        PROVE  Count(flags, {a, b}) = G(a) + G(b) /\ IsFiniteSet({a, b})
    <3>1. {a, b} = {a} \cup {b} /\ b \notin {a}
      BY <2>2
    <3> HIDE DEF G
    <3>2. Count(flags, {a} \cup {b}) = Count(flags, {a}) + G(b) /\ IsFiniteSet({a} \cup {b})
      BY <2>1, <3>1, CountAdds DEF G
    <3>3. QED BY <2>1, <3>1, <3>2
  <2>3. QED BY <2>1, <2>2
<1>3. \A a, b, c : a # b /\ c \notin {a, b} =>
        Count(flags, {a, b, c}) = G(a) + G(b) + G(c) /\ IsFiniteSet({a, b, c})
  <2> SUFFICES ASSUME NEW a, NEW b, NEW c, a # b, c \notin {a, b}
               PROVE  Count(flags, {a, b, c}) = G(a) + G(b) + G(c) /\ IsFiniteSet({a, b, c})
    OBVIOUS
  <2>1. {a, b, c} = {a, b} \cup {c}
    OBVIOUS
  <2> HIDE DEF G
  <2>2. /\ Count(flags, {a, b} \cup {c}) = Count(flags, {a, b}) + G(c)
        /\ IsFiniteSet({a, b} \cup {c})
    BY ZenonT(60), <1>2, CountAdds DEF G
  <2>3. QED BY <1>2, <2>1, <2>2
<1>4. \A a, b, c, d : a # b /\ c \notin {a, b} /\ d \notin {a, b, c} =>
        Count(flags, {a, b, c, d}) = G(a) + G(b) + G(c) + G(d)
  <2> SUFFICES ASSUME NEW a, NEW b, NEW c, NEW d,
                      a # b, c \notin {a, b}, d \notin {a, b, c}
               PROVE  Count(flags, {a, b, c, d}) = G(a) + G(b) + G(c) + G(d)
    OBVIOUS
  <2>1. {a, b, c, d} = {a, b, c} \cup {d}
    OBVIOUS
  <2> HIDE DEF G
  <2>2. Count(flags, {a, b, c} \cup {d}) = Count(flags, {a, b, c}) + G(d)
    BY ZenonT(60), <1>3, CountAdds DEF G
  <2>3. QED BY <1>3, <2>1, <2>2
<1> HIDE DEF G
<1>5. /\ Names({}) = {"--force"}
      /\ Names({"--at", "--out-a", "--out-b"}) = {"--at", "--out-a", "--out-b", "--force"}
      /\ Names({"--pages", "--degrees", "--out"}) =
           {"--pages", "--degrees", "--out", "--force"}
      /\ Names({"--pages", "--out"}) = {"--pages", "--out", "--force"}
  BY DEF Names, Switches
<1>a. /\ "--pages" # "--out" /\ "--force" \notin {"--pages", "--out"}
      /\ "--at" # "--out-a" /\ "--out-b" \notin {"--at", "--out-a"}
      /\ "--force" \notin {"--at", "--out-a", "--out-b"}
      /\ "--pages" # "--degrees" /\ "--out" \notin {"--pages", "--degrees"}
      /\ "--force" \notin {"--pages", "--degrees", "--out"}
  OBVIOUS
<1>b. Count(flags, {"--pages", "--out", "--force"}) = G("--pages") + G("--out") + G("--force")
  BY <1>3, <1>a
<1>c. Count(flags, {"--at", "--out-a", "--out-b", "--force"}) =
        G("--at") + G("--out-a") + G("--out-b") + G("--force")
  BY <1>4, <1>a
<1>d. Count(flags, {"--pages", "--degrees", "--out", "--force"}) =
        G("--pages") + G("--degrees") + G("--out") + G("--force")
  BY <1>4, <1>a
<1>6. FlagsOK(flags, {}) => Len(flags) = G("--force")
  BY <1>2, <1>5, FlagsAreNames
<1>7. FlagsOK(flags, {"--at", "--out-a", "--out-b"}) =>
        Len(flags) = G("--at") + G("--out-a") + G("--out-b") + G("--force")
  BY <1>5, <1>c, FlagsAreNames
<1>8. FlagsOK(flags, {"--pages", "--degrees", "--out"}) =>
        Len(flags) = G("--pages") + G("--degrees") + G("--out") + G("--force")
  BY <1>5, <1>d, FlagsAreNames
<1>9. FlagsOK(flags, {"--pages", "--out"}) =>
        Len(flags) = G("--pages") + G("--out") + G("--force")
  BY <1>5, <1>b, FlagsAreNames
<1>10. QED BY <1>6, <1>7, <1>8, <1>9 DEF G

-----------------------------------------------------------------------------
\* What a scanned line asks for

SelectionOK(pages) ==
  /\ pages \in Seq(Part) /\ Len(pages) >= 1
  /\ \A k \in 1..Len(pages) : pages[k].last = OpenEnd \/ pages[k].first <= pages[k].last
AskedOK(asked) ==
  /\ asked \in Invocation
  /\ asked.command = "merge" => Len(asked.outputs) = 1 /\ Len(asked.inputs) >= 1
  /\ asked.command = "split" => Len(asked.outputs) = 2 /\ Len(asked.inputs) = 1
  /\ asked.command = "rotate" =>
       Len(asked.outputs) \in 0..1 /\ Len(asked.inputs) = 1 /\ SelectionOK(asked.pages)
  /\ asked.command = "extract" =>
       Len(asked.outputs) = 1 /\ Len(asked.inputs) = 1 /\ SelectionOK(asked.pages)

\* Every item of the line is one of what is asked.
Claims(asked, line) ==
  Weight(line) = Len(asked.inputs) + Len(asked.outputs) + FlagNames(asked)
    + FlagTexts(asked) + Forces(line) + Ends(line)

LEMMA CutsOK ==
  ASSUME NEW t
  PROVE  /\ Cut(t) \in Seq(Seq(Int)) /\ DOMAIN Cut(t) = 1..Len(Cut(t))
         /\ \A i \in DOMAIN Cut(t) :
              Cut(t)[i] \in Seq(Int) /\ \A j \in 1..Len(Cut(t)[i]) : Cut(t)[i][j] \in Int
<1>1. Cut(t) \in Seq(Seq(Int))
  <2>1. CASE t \in DOMAIN Pieces
    BY <2>1, CommandArgsAssumption DEF Cut
  <2>2. CASE t \notin DOMAIN Pieces
    <3>1. NotDigits \in Int
      BY DEF NotDigits
    <3>2. << <<NotDigits>> >> \in Seq(Seq(Int))
      BY <3>1
    <3>3. QED BY <2>2, <3>2 DEF Cut
  <2>3. QED BY <2>1, <2>2
<1>2. PICK cut \in Seq(Seq(Int)) : cut = Cut(t)
  BY <1>1
<1>3. DOMAIN cut = 1..Len(cut)
  BY LenProperties
<1>4. ASSUME NEW i \in DOMAIN cut
      PROVE  cut[i] \in Seq(Int) /\ \A j \in 1..Len(cut[i]) : cut[i][j] \in Int
  <2>1. PICK piece \in Seq(Int) : piece = cut[i]
    BY <1>3, ElementOfSeq
  <2>2. \A j \in 1..Len(piece) : piece[j] \in Int
    BY ElementOfSeq
  <2>3. QED BY <2>1, <2>2
<1>5. QED BY <1>2, <1>3, <1>4

LEMMA SelectionIsRead ==
  ASSUME NEW t, IsSelection(t)
  PROVE  SelectionOK(SelectionOf(t))
<1>1. PICK cut : cut = Cut(t)
  OBVIOUS
<1>2. /\ cut \in Seq(Seq(Int)) /\ DOMAIN cut = 1..Len(cut) /\ cut # << >>
      /\ \A i \in DOMAIN cut : IsPart(cut[i])
      /\ \A i \in DOMAIN cut :
           cut[i] \in Seq(Int) /\ \A j \in 1..Len(cut[i]) : cut[i][j] \in Int
  BY SMTT(30), <1>1, CutsOK DEF IsSelection
<1>3. PICK n \in Nat : n = Len(cut)
  BY <1>2, LenProperties
<1>4. n >= 1
  BY <1>2, <1>3, EmptySeq
<1>5. ASSUME NEW i \in 1..n
      PROVE  /\ PartOf(cut[i]) \in Part
             /\ PartOf(cut[i]).last = OpenEnd \/ PartOf(cut[i]).first <= PartOf(cut[i]).last
  <2>1. PICK p \in Seq(Int) : p = cut[i] /\ IsPart(p) /\ \A j \in 1..Len(p) : p[j] \in Int
    BY <1>2, <1>3
  <2>2. Len(p) \in Nat
    BY LenProperties
  <2>3. CASE Len(p) = 1
    <3>1. p[1] \in Nat \ {0} /\ p[1] # Blank
      BY <2>1, <2>3 DEF IsPart, IsPageNumber, Blank
    <3>2. PartOf(p) = [first |-> p[1], last |-> p[1]]
      BY <2>3, <3>1 DEF PartOf
    <3>3. QED BY <2>1, <3>1, <3>2 DEF Part
  <2>4. CASE Len(p) # 1
    <3>1. /\ Len(p) = 2 /\ p[1] \in Int /\ p[2] \in Int
          /\ p[1] = Blank \/ IsPageNumber(p[1])
          /\ p[2] = Blank \/ IsPageNumber(p[2])
          /\ IsPageNumber(p[1]) /\ IsPageNumber(p[2]) => p[1] <= p[2]
      BY <2>1, <2>4 DEF IsPart
    <3>2. PartOf(p) = [first |-> IF p[1] = Blank THEN 1 ELSE p[1],
                       last |-> IF p[2] = Blank THEN OpenEnd ELSE p[2]]
      BY <3>1 DEF PartOf
    <3>3. QED BY <2>1, <3>1, <3>2 DEF Part, IsPageNumber, Blank, OpenEnd
  <2>5. QED BY <2>3, <2>4
<1>6. PICK pages : pages = [i \in 1..n |-> PartOf(cut[i])]
  OBVIOUS
<1>7. pages \in [1..n -> Part]
  BY <1>5, <1>6
<1>8. pages \in Seq(Part) /\ Len(pages) = n
  BY <1>7, SeqDef
<1>9. SelectionOf(t) = pages
  BY <1>1, <1>2, <1>3, <1>6 DEF SelectionOf
<1>10. \A k \in 1..n : pages[k] = PartOf(cut[k])
  BY <1>6
<1>11. QED BY <1>4, <1>5, <1>8, <1>9, <1>10 DEF SelectionOK

LEMMA NumbersAreRead ==
  ASSUME NEW t
  PROVE  /\ IsPositive(t) => PositiveOf(t) \in Nat \ {0}
         /\ IsRotation(t) => TurnsOf(t) \in 0..3
<1>1. ASSUME IsPositive(t) PROVE PositiveOf(t) \in Nat \ {0}
  BY <1>1, CutsOK DEF IsPositive, PositiveOf, IsPageNumber
<1>2. ASSUME IsRotation(t) PROVE TurnsOf(t) \in 0..3
  <2>1. Len(Cut(t)) = 1 /\ 1 \in DOMAIN Cut(t)
    BY <1>2, CutsOK DEF IsRotation, IsWhole
  <2>2. \A j \in 1..Len(Cut(t)[1]) : Cut(t)[1][j] \in Int
    BY <2>1, CutsOK
  <2>3. DegreesOf(t) \in Int
    BY <1>2, <2>2 DEF IsRotation, IsWhole, DegreesOf
  <2>4. PICK turn \in 0..359 : turn = DegreesOf(t) % 360
    BY <2>3
  <2>5. turn \div 90 \in 0..3
    OBVIOUS
  <2>6. QED BY <2>4, <2>5 DEF TurnsOf
<1>3. QED BY <1>1, <1>2

LEMMA PlainIsAsked ==
  ASSUME NEW c \in {"help", "version", "misuse"}
  PROVE  Plain(c) \in Invocation /\ Plain(c).command = c /\ AskedOK(Plain(c))
<1>1. Plain(c) \in Invocation
  BY DEF Plain, Invocation
<1>2. QED BY <1>1 DEF Plain, AskedOK

\* What a flag but a switch is given is a text.
LEMMA ValueIsText ==
  ASSUME NEW allowed, NEW line, LineOK(line, allowed), NEW name, IsGiven(line, name),
         name \notin Switches
  PROVE  ValueOf(line, name) \in Text
<1>1. DOMAIN line.flags = 1..Len(line.flags)
  BY LenProperties DEF LineOK, FlagsOK
<1>2. PICK i \in 1..Len(line.flags) : i = CHOOSE k \in DOMAIN line.flags : line.flags[k][1] = name
  BY <1>1 DEF IsGiven
<1>3. line.flags[i][1] = name
  BY <1>1, <1>2 DEF IsGiven
<1>4. line.flags[i][2] \in Text
  BY <1>3 DEF LineOK, FlagsOK
<1>5. QED BY <1>2, <1>4 DEF ValueOf

\* A line that is not misused, for a command with these flags.
LineRead(line, allowed) == LineOK(line, allowed) /\ line.awaiting = NoFlag

LEMMA LineWeighs ==
  ASSUME NEW allowed, NEW line, LineRead(line, allowed)
  PROVE  /\ line.positionals \in Seq(Text) /\ Len(line.positionals) \in Nat
         /\ Len(line.flags) \in Nat /\ Forces(line) \in {0, 1} /\ Ends(line) \in {0, 1}
         /\ Weight(line) = Len(line.positionals) + 2 * Len(line.flags) - Forces(line) + Ends(line)
         /\ Forces(line) = One(Given(line.flags, "--force"))
         /\ FlagsOK(line.flags, allowed)
<1>1. line.positionals \in Seq(Text) /\ FlagsOK(line.flags, allowed)
  BY DEF LineRead, LineOK, Scanning
<1>2. Waits(line) = 0
  BY DEF LineRead, Waits, One
<1>3. IsGiven(line, "--force") <=> Given(line.flags, "--force")
  BY GivenAmongFlags DEF LineRead
<1>4. Forces(line) = One(Given(line.flags, "--force"))
  BY <1>3 DEF Forces, One
<1>5. QED BY <1>1, <1>2, <1>4, WeightOf DEF LineRead

LEMMA MergeAsks ==
  ASSUME NEW line, LineRead(line, {}), NEW asked, asked = Merging(line), asked # Misuse
  PROVE  AskedOK(asked) /\ asked.command = "merge" /\ Claims(asked, line)
<1>1. /\ line.positionals \in Seq(Text) /\ Len(line.positionals) \in Nat
      /\ Forces(line) \in {0, 1} /\ Ends(line) \in {0, 1}
  BY LineWeighs
<1>2. Len(line.positionals) >= 2
  BY <1>1 DEF Merging
<1>3. PICK inputs \in Seq(Text) :
        inputs = Tail(line.positionals) /\ Len(inputs) = Len(line.positionals) - 1
  <2>1. line.positionals # << >>
    BY <1>2
  <2>2. QED BY <1>1, <2>1, HeadTailProperties
<1>4. PICK output \in Text : output = Head(line.positionals)
  BY <1>1, <1>2, HeadTailProperties, EmptySeq
<1>5. PICK force \in BOOLEAN : force = IsGiven(line, "--force")
  BY DEF IsGiven
<1>6. asked = [command |-> "merge", inputs |-> inputs, outputs |-> <<output>>, force |-> force,
               at |-> 0, pages |-> << >>, turns |-> 0]
  BY <1>2, <1>3, <1>4, <1>5 DEF Merging, Plain
<1>7. asked \in Invocation
  BY <1>6 DEF Invocation
<1>8. AskedOK(asked) /\ asked.command = "merge" /\ Len(asked.outputs) = 1
  BY <1>1, <1>2, <1>3, <1>6, <1>7 DEF AskedOK
<1>9. Len(line.flags) = Forces(line)
  BY LineWeighs, FlagsCounted
<1>10. FlagNames(asked) = 0 /\ FlagTexts(asked) = 0
  BY <1>8 DEF FlagNames, FlagTexts
<1>11. Claims(asked, line)
  BY <1>1, <1>3, <1>6, <1>8, <1>9, <1>10, LineWeighs DEF Claims
<1>12. QED BY <1>8, <1>11

LEMMA SplitAsks ==
  ASSUME NEW line, LineRead(line, {"--at", "--out-a", "--out-b"}),
         NEW asked, asked = Splitting(line), asked # Misuse
  PROVE  AskedOK(asked) /\ asked.command = "split" /\ Claims(asked, line)
<1>1. /\ line.positionals \in Seq(Text) /\ Len(line.positionals) \in Nat
      /\ Forces(line) \in {0, 1} /\ Ends(line) \in {0, 1}
  BY LineWeighs
<1>2. /\ IsGiven(line, "--at") /\ IsGiven(line, "--out-a") /\ IsGiven(line, "--out-b")
      /\ IsPositive(ValueOf(line, "--at")) /\ Len(line.positionals) = 1
  BY DEF Splitting, ValueFlags, TakesOne
<1>3. PICK input \in Text : input = Head(line.positionals)
  BY <1>1, <1>2, HeadTailProperties, EmptySeq
<1>4. PICK a \in Text, b \in Text :
        a = ValueOf(line, "--out-a") /\ b = ValueOf(line, "--out-b")
  BY <1>2, ValueIsText DEF LineRead, Switches
<1>5. PICK at \in Nat \ {0} : at = PositiveOf(ValueOf(line, "--at"))
  BY <1>2, NumbersAreRead
<1>6. PICK forced \in BOOLEAN : forced = IsGiven(line, "--force")
  BY DEF IsGiven
<1>7. asked = [command |-> "split", inputs |-> <<input>>, outputs |-> <<a, b>>,
               force |-> forced, at |-> at, pages |-> << >>, turns |-> 0]
  BY <1>2, <1>3, <1>4, <1>5, <1>6 DEF Splitting, Plain
<1>8. asked \in Invocation
  BY <1>7 DEF Invocation
<1>9. /\ AskedOK(asked) /\ asked.command = "split"
      /\ Len(asked.outputs) = 2 /\ Len(asked.inputs) = 1
  BY <1>7, <1>8 DEF AskedOK
<1>10. /\ Given(line.flags, "--at") /\ Given(line.flags, "--out-a")
       /\ Given(line.flags, "--out-b")
  BY <1>2, GivenAmongFlags DEF LineRead
<1>11. Len(line.flags) = 3 + Forces(line)
  <2>1. /\ One(Given(line.flags, "--at")) = 1 /\ One(Given(line.flags, "--out-a")) = 1
        /\ One(Given(line.flags, "--out-b")) = 1
    BY <1>10 DEF One
  <2>2. QED BY <1>1, <2>1, LineWeighs, FlagsCounted
<1>12. FlagNames(asked) = 3 /\ FlagTexts(asked) = 1
  BY <1>9 DEF FlagNames, FlagTexts
<1>13. Claims(asked, line)
  <2>1. PICK force \in {0, 1}, ends \in {0, 1} : force = Forces(line) /\ ends = Ends(line)
    BY <1>1
  <2>2. Weight(line) = 1 + 2 * (3 + force) - force + ends
    BY <1>2, <1>11, <2>1, LineWeighs
  <2>3. QED BY <1>9, <1>12, <2>1, <2>2 DEF Claims
<1>14. QED BY <1>9, <1>13

LEMMA RotateAsks ==
  ASSUME NEW line, LineRead(line, {"--pages", "--degrees", "--out"}),
         NEW asked, asked = Rotating(line), asked # Misuse
  PROVE  AskedOK(asked) /\ asked.command = "rotate" /\ Claims(asked, line)
<1>1. /\ line.positionals \in Seq(Text) /\ Len(line.positionals) \in Nat
      /\ Forces(line) \in {0, 1} /\ Ends(line) \in {0, 1}
  BY LineWeighs
<1>2. /\ IsGiven(line, "--pages") /\ IsSelection(ValueOf(line, "--pages"))
      /\ IsGiven(line, "--degrees") /\ IsRotation(ValueOf(line, "--degrees"))
      /\ Len(line.positionals) = 1
  BY DEF Rotating, TakesOne
<1>3. PICK input \in Text : input = Head(line.positionals)
  BY <1>1, <1>2, HeadTailProperties, EmptySeq
<1>4. PICK out : out = IF IsGiven(line, "--out") THEN <<ValueOf(line, "--out")>> ELSE << >>
  OBVIOUS
<1>5. out \in Seq(Text) /\ Len(out) = One(IsGiven(line, "--out"))
  <2>1. CASE IsGiven(line, "--out")
    <3>1. ValueOf(line, "--out") \in Text
      BY <2>1, ValueIsText DEF LineRead, Switches
    <3>2. QED BY <1>4, <2>1, <3>1 DEF One
  <2>2. CASE ~IsGiven(line, "--out")
    BY <1>4, <2>2 DEF One
  <2>3. QED BY <2>1, <2>2
<1>6. PICK pages : pages = SelectionOf(ValueOf(line, "--pages")) /\ SelectionOK(pages)
  BY <1>2, SelectionIsRead
<1>7. PICK turns \in 0..3 : turns = TurnsOf(ValueOf(line, "--degrees"))
  BY <1>2, NumbersAreRead
<1>8. PICK forced \in BOOLEAN : forced = IsGiven(line, "--force")
  BY DEF IsGiven
<1>9. asked = [command |-> "rotate", inputs |-> <<input>>, outputs |-> out,
               force |-> forced, at |-> 0, pages |-> pages, turns |-> turns]
  BY <1>2, <1>3, <1>4, <1>6, <1>7, <1>8 DEF Rotating, Plain, TakesOne
<1>10. pages \in Seq(Part)
  BY <1>6 DEF SelectionOK
<1>11. asked \in Invocation
  BY <1>5, <1>9, <1>10 DEF Invocation
<1>12. /\ AskedOK(asked) /\ asked.command = "rotate"
       /\ asked.outputs = out /\ Len(asked.inputs) = 1
  <2>1. Len(out) \in 0..1
    BY <1>5 DEF One
  <2>2. QED BY <1>6, <1>9, <1>11, <2>1 DEF AskedOK
<1>13. Given(line.flags, "--pages") /\ Given(line.flags, "--degrees")
  BY <1>2, GivenAmongFlags DEF LineRead
<1>14. One(Given(line.flags, "--out")) = Len(out)
  <2>1. IsGiven(line, "--out") <=> Given(line.flags, "--out")
    BY GivenAmongFlags DEF LineRead
  <2>2. QED BY <1>5, <2>1 DEF One
<1>15. Len(line.flags) = 2 + Len(out) + Forces(line) /\ Len(out) \in Nat
  <2>1. One(Given(line.flags, "--pages")) = 1 /\ One(Given(line.flags, "--degrees")) = 1
    BY <1>13 DEF One
  <2>2. PICK o \in Nat : o = Len(out)
    BY <1>5 DEF One
  <2>3. QED BY <1>1, <1>14, <2>1, <2>2, LineWeighs, FlagsCounted
<1>16. FlagNames(asked) = 2 + Len(out) /\ FlagTexts(asked) = 2
  BY <1>12 DEF FlagNames, FlagTexts
<1>17. Claims(asked, line)
  <2>1. PICK force \in {0, 1}, ends \in {0, 1} : force = Forces(line) /\ ends = Ends(line)
    BY <1>1
  <2>2. Weight(line) = 1 + 2 * (2 + Len(out) + force) - force + ends
    BY <1>2, <1>15, <2>1, LineWeighs
  <2>3. QED BY <1>12, <1>15, <1>16, <2>1, <2>2 DEF Claims
<1>18. QED BY <1>12, <1>17

LEMMA ExtractAsks ==
  ASSUME NEW line, LineRead(line, {"--pages", "--out"}),
         NEW asked, asked = Extracting(line), asked # Misuse
  PROVE  AskedOK(asked) /\ asked.command = "extract" /\ Claims(asked, line)
<1>1. /\ line.positionals \in Seq(Text) /\ Len(line.positionals) \in Nat
      /\ Forces(line) \in {0, 1} /\ Ends(line) \in {0, 1}
  BY LineWeighs
<1>2. /\ IsGiven(line, "--pages") /\ IsSelection(ValueOf(line, "--pages"))
      /\ IsGiven(line, "--out") /\ Len(line.positionals) = 1
  BY DEF Extracting, TakesOne
<1>3. PICK input \in Text : input = Head(line.positionals)
  BY <1>1, <1>2, HeadTailProperties, EmptySeq
<1>4. PICK out \in Text : out = ValueOf(line, "--out")
  BY <1>2, ValueIsText DEF LineRead, Switches
<1>5. PICK pages : pages = SelectionOf(ValueOf(line, "--pages")) /\ SelectionOK(pages)
  BY <1>2, SelectionIsRead
<1>6. PICK forced \in BOOLEAN : forced = IsGiven(line, "--force")
  BY DEF IsGiven
<1>7. asked = [command |-> "extract", inputs |-> <<input>>, outputs |-> <<out>>,
               force |-> forced, at |-> 0, pages |-> pages, turns |-> 0]
  BY <1>2, <1>3, <1>4, <1>5, <1>6 DEF Extracting, Plain, TakesOne
<1>8. pages \in Seq(Part)
  BY <1>5 DEF SelectionOK
<1>9. asked \in Invocation
  BY <1>7, <1>8 DEF Invocation
<1>10. /\ AskedOK(asked) /\ asked.command = "extract"
       /\ Len(asked.outputs) = 1 /\ Len(asked.inputs) = 1
  BY <1>5, <1>7, <1>9 DEF AskedOK
<1>11. Given(line.flags, "--pages") /\ Given(line.flags, "--out")
  BY <1>2, GivenAmongFlags DEF LineRead
<1>12. Len(line.flags) = 2 + Forces(line)
  <2>1. One(Given(line.flags, "--pages")) = 1 /\ One(Given(line.flags, "--out")) = 1
    BY <1>11 DEF One
  <2>2. QED BY <1>1, <2>1, LineWeighs, FlagsCounted
<1>13. FlagNames(asked) = 2 /\ FlagTexts(asked) = 1
  BY <1>10 DEF FlagNames, FlagTexts
<1>14. Claims(asked, line)
  <2>1. PICK force \in {0, 1}, ends \in {0, 1} : force = Forces(line) /\ ends = Ends(line)
    BY <1>1
  <2>2. Weight(line) = 1 + 2 * (2 + force) - force + ends
    BY <1>2, <1>12, <2>1, LineWeighs
  <2>3. QED BY <1>10, <1>13, <2>1, <2>2 DEF Claims
<1>15. QED BY <1>10, <1>14

\* EveryItemIsClaimed, of one line.
ItemsClaimed(argv, asked) ==
  Len(argv) + Cardinality({i \in Flagged(argv) : argv[i] \in DOMAIN Inline}) =
    1 + Len(asked.inputs) + Len(asked.outputs) + FlagNames(asked) + FlagTexts(asked)
    + Cardinality({i \in Flagged(argv) : argv[i] = "--force"})
    + (IF Flagged(argv) = DOMAIN argv THEN 0 ELSE 1)

LEMMA ClaimedItems ==
  ASSUME NEW argv \in Seq(Text), NEW line, NEW asked, NEW allowed, LineOK(line, allowed),
         Accounted(argv, Len(argv), line), Claims(asked, line),
         Len(asked.inputs) \in Nat, Len(asked.outputs) \in Nat,
         FlagNames(asked) \in Nat, FlagTexts(asked) \in Nat
  PROVE  ItemsClaimed(argv, asked)
<1>1. PICK n \in Nat : n = Len(argv) /\ DOMAIN argv = 1..n
  BY LenProperties
<1>2. Flagged(argv) = FlaggedTo(argv, n)
  BY <1>1 DEF Flagged, FlaggedTo
<1>3. Tally(argv, n, DOMAIN Inline) = Cardinality({i \in Flagged(argv) : argv[i] \in DOMAIN Inline})
  BY <1>2 DEF Tally
<1>4. Tally(argv, n, {"--force"}) = Cardinality({i \in Flagged(argv) : argv[i] = "--force"})
  <2>1. {i \in Flagged(argv) : argv[i] = "--force"} =
          {i \in FlaggedTo(argv, n) : argv[i] \in {"--force"}}
    BY <1>2
  <2>2. QED BY <2>1 DEF Tally
<1>5. Bare(argv, n) <=> Flagged(argv) # DOMAIN argv
  <2>1. ASSUME Bare(argv, n) PROVE Flagged(argv) # DOMAIN argv
    <3>1. PICK j \in 1..n : argv[j] = "--"
      BY <2>1 DEF Bare
    <3>2. j \in 1..j
      OBVIOUS
    <3>3. QED BY <1>1, <3>1, <3>2 DEF Flagged
  <2>2. ASSUME ~Bare(argv, n) PROVE Flagged(argv) = DOMAIN argv
    <3>1. \A i \in 1..n : \A j \in 1..i : j \in 1..n
      OBVIOUS
    <3>2. QED BY <1>1, <2>2, <3>1 DEF Bare, Flagged
  <2>3. QED BY <2>1, <2>2
<1>6. Ends(line) = IF Flagged(argv) = DOMAIN argv THEN 0 ELSE 1
  BY <1>1, <1>5 DEF Accounted, Ends, One
<1>7. PICK tally \in Nat : tally = Tally(argv, n, DOMAIN Inline)
  BY TallyStep
<1>8. PICK w \in Int, f \in {0, 1}, e \in {0, 1} :
        w = Weight(line) /\ f = Forces(line) /\ e = Ends(line)
  BY WeightOf
<1>9. PICK i \in Nat, o \in Nat, names \in Nat, texts \in Nat :
        /\ i = Len(asked.inputs) /\ o = Len(asked.outputs)
        /\ names = FlagNames(asked) /\ texts = FlagTexts(asked)
  OBVIOUS
<1>10. 1 + w = n + tally /\ f = Tally(argv, n, {"--force"})
  BY <1>1, <1>7, <1>8 DEF Accounted
<1>11. w = i + o + names + texts + f + e
  BY <1>8, <1>9 DEF Claims
<1>12. n + tally = 1 + i + o + names + texts + f + e
  BY SMTT(30), <1>10, <1>11
<1>13. QED BY <1>1, <1>3, <1>4, <1>6, <1>7, <1>8, <1>9, <1>10, <1>12 DEF ItemsClaimed

LEMMA ParsedIsAsked ==
  ASSUME NEW argv \in Seq(Text)
  PROVE  /\ AskedOK(Parsed(argv))
         /\ Parsed(argv).command \in DOMAIN ValueFlags => ItemsClaimed(argv, Parsed(argv))
<1> DEFINE Good(asked) ==
      AskedOK(asked) /\ (asked.command \in DOMAIN ValueFlags => ItemsClaimed(argv, asked))
<1>1. Good(Plain("help")) /\ Good(Plain("version")) /\ Good(Misuse)
  BY PlainIsAsked DEF Misuse, ValueFlags
<1>2. Good(Subcommanded(argv))
  <2>1. PICK line : line = Scanned(Tail(argv), ValueFlags[argv[1]])
    OBVIOUS
  <2>2. PICK asked : asked = Subcommanded(argv)
    OBVIOUS
  <2> HIDE DEF Good
  <2>3. CASE argv = << >> \/ argv[1] \notin DOMAIN ValueFlags \/ line.misused
    BY <1>1, <2>1, <2>3 DEF Subcommanded
  <2>4. CASE ~(argv = << >> \/ argv[1] \notin DOMAIN ValueFlags \/ line.misused)
    <3> SUFFICES ASSUME asked # Misuse PROVE Good(asked)
      BY <1>1, <2>2
    <3>1. PICK allowed : allowed = ValueFlags[argv[1]]
      OBVIOUS
    <3>2. LineRead(line, allowed) /\ Accounted(argv, Len(argv), line) /\ LineOK(line, allowed)
      BY <2>1, <2>4, <3>1, LineIsScanned DEF LineRead
    <3>3. argv[1] \in {"merge", "split", "rotate", "extract"}
      BY <2>4 DEF ValueFlags
    <3>4. AskedOK(asked) /\ Claims(asked, line) /\ asked.command \in {"merge", "split", "rotate", "extract"}
      <4>1. CASE argv[1] = "merge"
        <5>1. allowed = {} /\ asked = Merging(line)
          BY <2>1, <2>2, <2>4, <3>1, <4>1 DEF ValueFlags, Subcommanded
        <5>2. QED BY <3>2, <5>1, MergeAsks
      <4>2. CASE argv[1] = "split"
        <5>1. allowed = {"--at", "--out-a", "--out-b"} /\ asked = Splitting(line)
          BY <2>1, <2>2, <2>4, <3>1, <4>2 DEF ValueFlags, Subcommanded
        <5>2. QED BY <3>2, <5>1, SplitAsks
      <4>3. CASE argv[1] = "rotate"
        <5>1. allowed = {"--pages", "--degrees", "--out"} /\ asked = Rotating(line)
          BY <2>1, <2>2, <2>4, <3>1, <4>3 DEF ValueFlags, Subcommanded
        <5>2. QED BY <3>2, <5>1, RotateAsks
      <4>4. CASE argv[1] = "extract"
        <5>1. allowed = {"--pages", "--out"} /\ asked = Extracting(line)
          BY <2>1, <2>2, <2>4, <3>1, <4>4 DEF ValueFlags, Subcommanded
        <5>2. QED BY <3>2, <5>1, ExtractAsks
      <4>5. QED BY <3>3, <4>1, <4>2, <4>3, <4>4
    <3>5. Len(asked.inputs) \in Nat /\ Len(asked.outputs) \in Nat
      BY <3>4, LenProperties DEF AskedOK, Invocation
    <3>6. FlagNames(asked) \in Nat /\ FlagTexts(asked) \in Nat
      BY <3>4, <3>5 DEF FlagNames, FlagTexts
    <3>7. QED BY <3>2, <3>4, <3>5, <3>6, ClaimedItems DEF Good
  <2>5. QED BY <2>2, <2>3, <2>4
<1> HIDE DEF Good
<1>3. Good(Parsed(argv))
  BY <1>1, <1>2 DEF Parsed
<1>4. QED BY <1>3 DEF Good

-----------------------------------------------------------------------------
\* A document built part by part has the pages of its parts, one after another.

Lists == Seq(Page)
Joins(parts, n, f) ==
  /\ f[0] = << >> /\ \A k \in 0..n : f[k] \in Lists
  /\ \A k \in 1..n : f[k] = f[k - 1] \o parts[k]

LEMMA PartsJoin ==
  ASSUME NEW parts \in Seq(Lists)
  PROVE  \E f : Joins(parts, Len(parts), f)
<1>1. PICK n \in Nat : n = Len(parts)
  BY LenProperties
<1>2. \A k \in 1..n : parts[k] \in Lists
  BY <1>1, ElementOfSeq
<1>3. PICK base \in Lists : base = << >>
  BY EmptySeq DEF Lists
<1>4. PICK G : G = [k \in 1..n |-> [l \in Lists |-> l \o parts[k]]]
  OBVIOUS
<1>5. G \in [1..n -> [Lists -> Lists]]
  <2>1. \A k \in 1..n, l \in Lists : l \o parts[k] \in Lists
    BY <1>2, ConcatProperties DEF Lists
  <2>2. QED BY <1>4, <2>1
<1>6. PICK f : Unrolls(Lists, n, base, G, f)
  BY <1>5, Unrolling
<1>7. \A k \in 0..n : f[k] \in Lists
  BY <1>6 DEF Unrolls
<1>8. ASSUME NEW k \in 1..n PROVE f[k] = f[k - 1] \o parts[k]
  <2>1. k - 1 \in 0..n
    OBVIOUS
  <2>2. f[k - 1] \in Lists
    BY <1>7, <2>1
  <2>3. G[k][f[k - 1]] = f[k - 1] \o parts[k]
    BY <1>4, <2>2
  <2>4. QED BY <1>6, <2>3 DEF Unrolls
<1>9. QED BY <1>1, <1>3, <1>6, <1>7, <1>8 DEF Unrolls, Joins

\* Any function that adds the parts up in turn is the one that joins them.
Adds(parts, m, g) == g[0] = << >> /\ \A k \in 1..m : g[k] = g[k - 1] \o parts[k]

LEMMA JoinsAlike ==
  ASSUME NEW parts, NEW n \in Nat, NEW f, Joins(parts, n, f),
         NEW m \in 0..n, NEW g, Adds(parts, m, g)
  PROVE  \A k \in 0..m : g[k] = f[k]
<1> DEFINE T == {k \in Nat : k <= m => g[k] = f[k]}
<1>1. 0 \in T
  BY DEF Joins, Adds
<1>2. ASSUME NEW k \in Nat, k \in T PROVE k + 1 \in T
  <2> SUFFICES ASSUME k + 1 <= m PROVE g[k + 1] = f[k + 1]
    OBVIOUS
  <2>1. k + 1 \in 1..m /\ k + 1 \in 1..n /\ (k + 1) - 1 = k
    OBVIOUS
  <2>2. g[k] = f[k]
    BY <1>2
  <2>3. QED BY <2>1, <2>2 DEF Joins, Adds
<1> HIDE DEF T
<1>3. \A k \in Nat : k \in T
  BY <1>1, <1>2, EveryNumber
<1>4. QED BY <1>3 DEF T

LEMMA GatheredJoins ==
  ASSUME NEW parts \in Seq(Lists), NEW f, Joins(parts, Len(parts), f)
  PROVE  Gathered(parts) = Pdf(f[Len(parts)], {})
<1>1. PICK n \in Nat : n = Len(parts)
  BY LenProperties
<1> DEFINE Step(b, k) == IF k = 0 THEN Empty ELSE Extended(b[k - 1], parts[k])
           built == CHOOSE b : b = [k \in 0..n |-> Step(b, k)]
           g == [k \in 0..n |-> Pdf(f[k], {})]
<1>2. g = [k \in 0..n |-> Step(g, k)]
  <2> SUFFICES ASSUME NEW k \in 0..n PROVE Pdf(f[k], {}) = Step(g, k)
    OBVIOUS
  <2>1. CASE k = 0
    BY <2>1 DEF Empty, Joins
  <2>2. CASE k # 0
    <3>1. k \in 1..n /\ k - 1 \in 0..n
      BY <2>2
    <3>2. f[k] = f[k - 1] \o parts[k]
      BY <1>1, <3>1 DEF Joins
    <3>3. g[k - 1] = Pdf(f[k - 1], {})
      BY <3>1
    <3>4. Extended(Pdf(f[k - 1], {}), parts[k]) = Pdf(f[k - 1] \o parts[k], {})
      BY DEF Extended, Pdf
    <3> HIDE DEF g
    <3>5. QED BY <2>2, <3>2, <3>3, <3>4
  <2>3. QED BY <2>1, <2>2
<1>3. built = [k \in 0..n |-> Step(built, k)]
  <2>1. \E b : b = [k \in 0..n |-> Step(b, k)]
    <3> HIDE DEF Step, g
    <3>1. QED BY <1>2, Zenon
  <2>2. QED BY <2>1
<1>4. \A k \in 0..n : built[k] = Step(built, k)
  BY <1>3
<1>5. Gathered(parts) = built[n]
  BY <1>1 DEF Gathered
<1> HIDE DEF built
<1> DEFINE T == {k \in Nat : k <= n => built[k] = Pdf(f[k], {})}
<1>6. 0 \in T
  BY <1>4 DEF Empty, Joins
<1>7. ASSUME NEW k \in Nat, k \in T PROVE k + 1 \in T
  <2> SUFFICES ASSUME k + 1 <= n PROVE built[k + 1] = Pdf(f[k + 1], {})
    OBVIOUS
  <2>1. k + 1 \in 1..n /\ k + 1 \in 0..n /\ (k + 1) - 1 = k /\ k + 1 # 0
    OBVIOUS
  <2>2. built[k] = Pdf(f[k], {})
    BY <1>7
  <2>3. built[k + 1] = Extended(built[k], parts[k + 1])
    BY <1>4, <2>1
  <2>4. f[k + 1] = f[k] \o parts[k + 1]
    BY <1>1, <2>1 DEF Joins
  <2>5. QED BY <2>2, <2>3, <2>4 DEF Extended, Pdf
<1> HIDE DEF T
<1>8. n \in T
  BY <1>6, <1>7, EveryNumber
<1>9. QED BY <1>1, <1>5, <1>8 DEF T

LEMMA FlattenJoins ==
  ASSUME NEW parts \in Seq(Lists), Len(parts) >= 1, NEW f, Joins(parts, Len(parts), f)
  PROVE  FlattenSeq(parts) = f[Len(parts)]
<1>1. PICK n \in Nat : n = Len(parts) /\ n >= 1
  BY LenProperties
<1>2. \A k \in 1..n : parts[k] \in Lists
  BY <1>1, ElementOfSeq
<1> DEFINE Step(b, k) == IF k = 1 THEN parts[k] ELSE b[k - 1] \o parts[k]
           flatten == CHOOSE b : b = [k \in 1..n |-> Step(b, k)]
           g == [k \in 1..n |-> f[k]]
<1>3. f[1] = parts[1]
  <2>1. 1 \in 1..n /\ parts[1] \in Lists
    BY <1>1, <1>2
  <2>2. f[1 - 1] = << >> /\ f[1] = f[1 - 1] \o parts[1]
    <3>1. 1 - 1 = 0
      OBVIOUS
    <3>2. f[0] = << >> /\ f[1] = f[1 - 1] \o parts[1]
      BY <1>1, <2>1 DEF Joins
    <3>3. QED BY <3>1, <3>2
  <2>3. << >> \o parts[1] = parts[1]
    BY <2>1, ConcatEmptySeq DEF Lists
  <2>4. QED BY <2>2, <2>3
<1>4. g = [k \in 1..n |-> Step(g, k)]
  <2> SUFFICES ASSUME NEW k \in 1..n PROVE f[k] = Step(g, k)
    OBVIOUS
  <2>1. CASE k = 1
    BY <1>3, <2>1
  <2>2. CASE k # 1
    <3>1. k - 1 \in 1..n
      BY <2>2
    <3>2. g[k - 1] = f[k - 1]
      BY SMTT(30), <3>1
    <3>3. QED BY <1>1, <2>2, <3>2 DEF Joins
  <2>3. QED BY <2>1, <2>2
<1>5. flatten = [k \in 1..n |-> Step(flatten, k)]
  <2>1. \E b : b = [k \in 1..n |-> Step(b, k)]
    <3> HIDE DEF Step, g
    <3>1. QED BY ZenonT(60), <1>4, Zenon
  <2>2. QED BY <2>1
<1>6. \A k \in 1..n : flatten[k] = Step(flatten, k)
  BY <1>5
<1>7. FlattenSeq(parts) = flatten[n]
  BY <1>1 DEF FlattenSeq
<1> HIDE DEF flatten
<1> DEFINE T == {k \in Nat : 1 <= k /\ k <= n => flatten[k] = f[k]}
<1>8. 0 \in T
  OBVIOUS
<1>9. ASSUME NEW k \in Nat, k \in T PROVE k + 1 \in T
  <2> SUFFICES ASSUME k + 1 <= n PROVE flatten[k + 1] = f[k + 1]
    OBVIOUS
  <2>1. k + 1 \in 1..n /\ (k + 1) - 1 = k
    OBVIOUS
  <2>2. CASE k = 0
    <3>1. flatten[1] = parts[1]
      BY <1>6, <2>1, <2>2
    <3>2. QED BY <1>3, <2>2, <3>1
  <2>3. CASE k # 0
    <3>1. flatten[k] = f[k]
      BY <1>9, <2>3
    <3>2. flatten[k + 1] = flatten[k] \o parts[k + 1]
      <4>1. k + 1 # 1
        BY <2>3
      <4>2. QED BY <1>6, <2>1, <4>1
    <3>3. f[k + 1] = f[k] \o parts[k + 1]
      BY <1>1, <2>1 DEF Joins
    <3>4. QED BY <3>1, <3>2, <3>3
  <2>4. QED BY <2>2, <2>3
<1> HIDE DEF T
<1>10. n \in T
  BY <1>8, <1>9, EveryNumber
<1>11. QED BY <1>1, <1>7, <1>10 DEF T

LEMMA GatheredParts ==
  ASSUME NEW parts \in Seq(Lists)
  PROVE  /\ Gathered(parts) = Pdf(Gathered(parts).pages, {})
         /\ Gathered(parts).pages \in Lists
         /\ Len(parts) >= 1 => Gathered(parts).pages = FlattenSeq(parts)
<1>1. PICK f : Joins(parts, Len(parts), f)
  BY PartsJoin
<1>2. Gathered(parts) = Pdf(f[Len(parts)], {})
  BY <1>1, GatheredJoins
<1>3. Gathered(parts).pages = f[Len(parts)]
  BY <1>2 DEF Pdf
<1>4. Len(parts) \in 0..Len(parts)
  BY LenProperties
<1>5. QED BY <1>1, <1>2, <1>3, <1>4, FlattenJoins DEF Joins

LEMMA GatheredMore ==
  ASSUME NEW parts \in Seq(Lists), NEW part \in Lists, NEW more, more = Append(parts, part)
  PROVE  Gathered(more).pages = Gathered(parts).pages \o part
<1>1. PICK n \in Nat : n = Len(parts)
  BY LenProperties
<1>2. /\ more \in Seq(Lists) /\ Len(more) = n + 1 /\ more[n + 1] = part
      /\ \A k \in 1..n : more[k] = parts[k]
  BY <1>1, AppendProperties
<1>3. PICK f : Joins(parts, n, f)
  BY <1>1, PartsJoin
<1>4. PICK g : Joins(more, n + 1, g)
  BY <1>2, PartsJoin
<1>5. /\ g[0] = << >> /\ \A k \in 1..n : g[k] = g[k - 1] \o parts[k]
      /\ g[n + 1] = g[n] \o part
  <2>1. \A k \in 1..n : k \in 1..(n + 1)
    OBVIOUS
  <2>2. n + 1 \in 1..(n + 1) /\ (n + 1) - 1 = n
    OBVIOUS
  <2>3. QED BY <1>2, <1>4, <2>1, <2>2 DEF Joins
<1>6. g[n] = f[n]
  <2>1. n \in 0..n
    OBVIOUS
  <2>2. Adds(parts, n, g)
    BY <1>5 DEF Adds
  <2>3. \A k \in 0..n : g[k] = f[k]
    BY <1>3, <2>1, <2>2, JoinsAlike
  <2>4. QED BY <2>1, <2>3
<1>7. Gathered(parts) = Pdf(f[n], {})
  BY <1>1, <1>3, GatheredJoins
<1>8. Gathered(more) = Pdf(g[n + 1], {})
  BY <1>2, <1>4, GatheredJoins
<1>9. Gathered(parts).pages = f[n]
  BY <1>7 DEF Pdf
<1>10. Gathered(more).pages = g[n + 1]
  BY <1>8 DEF Pdf
<1>11. QED BY <1>5, <1>6, <1>9, <1>10

LEMMA GatheredNothing == Gathered(<< >>).pages = << >>
<1>1. PICK parts \in Seq(Lists) : parts = << >> /\ Len(parts) = 0
  BY EmptySeq
<1>2. PICK f : Joins(parts, 0, f)
  BY <1>1, PartsJoin
<1>3. Gathered(parts) = Pdf(f[0], {})
  BY <1>1, <1>2, GatheredJoins
<1>4. QED BY <1>1, <1>2, <1>3 DEF Joins, Pdf

-----------------------------------------------------------------------------
\* The numbers of a finite set in ascending order

Rising(s, n) == \A i, j \in 1..n : i < j => s[i] < s[j]

LEMMA RisingExists ==
  ASSUME NEW m \in Nat
  PROVE  \A S \in SUBSET (0..(m - 1)) :
           /\ IsFiniteSet(S) /\ Cardinality(S) \in Nat
           /\ \E s \in [1..Cardinality(S) -> S] : Rising(s, Cardinality(S))
<1> DEFINE Good(S) == /\ IsFiniteSet(S) /\ Cardinality(S) \in Nat
                      /\ \E s \in [1..Cardinality(S) -> S] : Rising(s, Cardinality(S))
           T == {k \in Nat : \A S \in SUBSET (0..(k - 1)) : Good(S)}
<1>1. 0 \in T
  <2>1. \A S \in SUBSET (0..(0 - 1)) : S = {}
    OBVIOUS
  <2>2. Good({})
    <3>1. IsFiniteSet({}) /\ Cardinality({}) = 0
      BY FS_EmptySet
    <3> DEFINE s == [i \in 1..0 |-> i]
    <3>2. s \in [1..0 -> {}] /\ Rising(s, 0)
      BY DEF Rising
    <3> HIDE DEF s
    <3>3. \E f \in [1..0 -> {}] : Rising(f, 0)
      BY <3>2
    <3>4. PICK n \in Nat : n = 0 /\ n = Cardinality({})
      BY <3>1
    <3>5. \E f \in [1..n -> {}] : Rising(f, n)
      BY <3>3, <3>4
    <3>6. QED BY <3>1, <3>4, <3>5
  <2> HIDE DEF Good
  <2>3. QED BY <2>1, <2>2
<1>2. ASSUME NEW k \in Nat, k \in T PROVE k + 1 \in T
  <2> SUFFICES ASSUME NEW S \in SUBSET (0..k) PROVE Good(S)
    <3> HIDE DEF Good
    <3>1. (k + 1) - 1 = k
      OBVIOUS
    <3>2. QED BY <3>1
  <2>1. PICK R \in SUBSET (0..(k - 1)) : R = S \ {k}
    <3>1. S \ {k} \in SUBSET (0..(k - 1))
      <4>1. \A x \in S : x \in 0..k
        OBVIOUS
      <4>2. \A x \in 0..k : x # k => x \in 0..(k - 1)
        OBVIOUS
      <4>3. QED BY <4>1, <4>2
    <3>2. QED BY <3>1
  <2>2. Good(R)
    BY <1>2
  <2>3. PICK n \in Nat : n = Cardinality(R)
    BY <2>2
  <2>4. PICK r \in [1..n -> R] : Rising(r, n)
    BY <2>2, <2>3
  <2>5. CASE k \notin S
    <3>1. R = S
      BY <2>1, <2>5
    <3> HIDE DEF Good
    <3>2. QED BY <2>2, <3>1
  <2>6. CASE k \in S
    <3>1. S = R \cup {k} /\ k \notin R
      BY <2>1, <2>6
    <3>2. IsFiniteSet(S) /\ Cardinality(S) = n + 1
      BY <2>2, <2>3, <3>1, FS_AddElement
    <3> DEFINE s == [i \in 1..(n + 1) |-> IF i = n + 1 THEN k ELSE r[i]]
    <3>3. s \in [1..(n + 1) -> S]
      BY <3>1
    <3>4. \A i \in 1..n : s[i] = r[i] /\ r[i] \in R /\ r[i] \in Int /\ r[i] < k
      <4>1. \A x \in R : x \in 0..(k - 1)
        OBVIOUS
      <4>2. \A x \in 0..(k - 1) : x \in Int /\ x < k
        OBVIOUS
      <4>3. \A i \in 1..n : i \in 1..(n + 1) /\ i # n + 1
        OBVIOUS
      <4>4. QED BY <4>1, <4>2, <4>3
    <3>5. s[n + 1] = k
      OBVIOUS
    <3> HIDE DEF s
    <3>6. ASSUME NEW i \in 1..(n + 1), NEW j \in 1..(n + 1), i < j PROVE s[i] < s[j]
      <4>1. i \in 1..n
        BY <3>6
      <4>2. CASE j = n + 1
        BY <3>4, <3>5, <4>1, <4>2
      <4>3. CASE j # n + 1
        BY <2>4, <3>4, <3>6, <4>1, <4>3 DEF Rising
      <4>4. QED BY <4>2, <4>3
    <3>7. Rising(s, n + 1)
      BY <3>6 DEF Rising
    <3>8. QED BY <3>2, <3>3, <3>7
  <2>7. QED BY <2>5, <2>6
<1> HIDE DEF T
<1>3. m \in T
  BY <1>1, <1>2, EveryNumber
<1>4. QED BY <1>3 DEF T

\* Each element has its place, which is how many come up to it.
Ordered(S, s, n) ==
  /\ n \in Nat /\ n = Cardinality(S) /\ IsFiniteSet(S) /\ s \in [1..n -> S] /\ Rising(s, n)
  /\ \A x \in S : \E i \in 1..n : s[i] = x
  /\ \A i \in 1..n : Cardinality({x \in S : x <= s[i]}) = i

LEMMA AscendingOrders ==
  ASSUME NEW m \in Nat, NEW S \in SUBSET (0..(m - 1))
  PROVE  Ordered(S, Ascending(S), Cardinality(S))
<1>1. PICK n \in Nat : n = Cardinality(S) /\ IsFiniteSet(S)
  BY RisingExists
<1>2. PICK s : s = Ascending(S)
  OBVIOUS
<1>3. s \in [1..n -> S] /\ Rising(s, n)
  <2> DEFINE Up(f) == \A i, j \in DOMAIN f : i < j => f[i] < f[j]
  <2>1. \E f \in [1..n -> S] : Rising(f, n)
    BY <1>1, RisingExists
  <2>2. \A f \in [1..n -> S] : Up(f) <=> Rising(f, n)
    BY DEF Rising
  <2>3. s = CHOOSE f \in [1..n -> S] : Up(f)
    BY <1>1, <1>2 DEF Ascending
  <2> HIDE DEF Up
  <2>4. \E f \in [1..n -> S] : Up(f)
    BY <2>1, <2>2
  <2>5. s \in [1..n -> S] /\ Up(s)
    BY <2>3, <2>4
  <2>6. QED BY <2>2, <2>5
<1>4. \A i \in 1..n : s[i] \in S /\ s[i] \in Int
  <2>1. \A x \in S : x \in 0..(m - 1)
    OBVIOUS
  <2>2. \A x \in 0..(m - 1) : x \in Int
    OBVIOUS
  <2>3. QED BY <1>3, <2>1, <2>2
<1>5. \A i, j \in 1..n : s[i] <= s[j] => i <= j
  <2> SUFFICES ASSUME NEW i \in 1..n, NEW j \in 1..n, s[i] <= s[j], j < i PROVE FALSE
    OBVIOUS
  <2>1. s[j] < s[i] /\ s[i] \in Int /\ s[j] \in Int
    BY <1>3, <1>4 DEF Rising
  <2>2. QED BY <2>1
<1>6. \A i, j \in 1..n : s[i] = s[j] => i = j
  <2> SUFFICES ASSUME NEW i \in 1..n, NEW j \in 1..n, s[i] = s[j] PROVE i = j
    OBVIOUS
  <2>1. i <= j /\ j <= i
    BY <1>4, <1>5
  <2>2. QED BY <2>1
<1>7. \A i, j \in 1..n : i <= j => s[i] <= s[j]
  <2> SUFFICES ASSUME NEW i \in 1..n, NEW j \in 1..n, i <= j PROVE s[i] <= s[j]
    OBVIOUS
  <2>1. i = j \/ s[i] < s[j]
    BY <1>3 DEF Rising
  <2>2. QED BY <1>4, <2>1
<1>8. \A x \in S : \E i \in 1..n : s[i] = x
  <2> DEFINE R == {s[i] : i \in 1..n}
  <2>1. R \subseteq S
    BY <1>4
  <2>2. ExistsBijection(1..n, R)
    <3>1. s \in [1..n -> R]
      BY <1>3
    <3>2. s \in Injection(1..n, R)
      BY <1>6, <3>1 DEF Injection, IsInjective
    <3>3. s \in Surjection(1..n, R)
      BY <3>1 DEF Surjection
    <3>4. QED BY <3>2, <3>3 DEF ExistsBijection, Bijection
  <2> HIDE DEF R
  <2>3. Cardinality(R) = n
    BY <2>2, FS_CountingElements
  <2>4. R = S
    BY <1>1, <2>1, <2>3, FS_Subset
  <2>5. QED BY <2>4 DEF R
<1>9. ASSUME NEW i \in 1..n PROVE Cardinality({x \in S : x <= s[i]}) = i
  <2> DEFINE B == {x \in S : x <= s[i]}
             t == [k \in 1..i |-> s[k]]
  <2>1. \A k \in 1..i : k \in 1..n /\ k <= i
    OBVIOUS
  <2>2. t \in [1..i -> B]
    BY <1>4, <1>7, <2>1
  <2>3. \A k \in 1..i : t[k] = s[k]
    OBVIOUS
  <2>4. \A x \in B : \E k \in 1..i : t[k] = x
    <3> SUFFICES ASSUME NEW x \in B PROVE \E k \in 1..i : t[k] = x
      OBVIOUS
    <3>1. PICK k \in 1..n : s[k] = x
      BY <1>8
    <3>2. k <= i
      BY <1>5, <3>1
    <3>3. k \in 1..i
      BY <3>2
    <3>4. QED BY <2>3, <3>1, <3>3
  <2> HIDE DEF B, t
  <2>5. t \in Injection(1..i, B)
    BY <1>6, <2>1, <2>2, <2>3 DEF Injection, IsInjective
  <2>6. t \in Surjection(1..i, B)
    BY <2>2, <2>4 DEF Surjection
  <2>7. ExistsBijection(1..i, B)
    BY <2>5, <2>6 DEF ExistsBijection, Bijection
  <2>8. i \in Nat
    OBVIOUS
  <2>9. Cardinality(B) = i
    BY <2>7, <2>8, FS_CountingElements
  <2>10. QED BY <2>9 DEF B
<1>10. QED BY <1>1, <1>2, <1>3, <1>8, <1>9 DEF Ordered

-----------------------------------------------------------------------------
\* Pages taken run by run are the pages at the positions the runs join.

Spans(n) == {run \in Nat \X Nat : run[1] < run[2] /\ run[2] <= n}
Taken(pages, run) == SubSeq(pages, run[1] + 1, run[2])
PartsOf(pages, runs) == [r \in DOMAIN runs |-> Taken(pages, runs[r])]
Covered(pages, runs) == Gathered(PartsOf(pages, runs)).pages

LEMMA SpanFacts ==
  ASSUME NEW n \in Nat, NEW a \in Nat, NEW b \in Nat, a < b, b <= n
  PROVE  <<a, b>> \in Spans(n) /\ <<a, b>>[1] = a /\ <<a, b>>[2] = b
BY DEF Spans

LEMMA TakenPages ==
  ASSUME NEW pages \in Lists, NEW run \in Spans(Len(pages))
  PROVE  Taken(pages, run) \in Lists
<1>1. PICK n \in Nat : n = Len(pages)
  BY LenProperties DEF Lists
<1>2. PICK a \in Nat, b \in Nat : a = run[1] /\ b = run[2] /\ b <= n
  BY <1>1 DEF Spans
<1>3. \A i \in (a + 1)..b : pages[i] \in Page
  <2>1. \A i \in (a + 1)..b : i \in 1..n
    BY <1>2
  <2>2. \A i \in 1..n : pages[i] \in Page
    BY <1>1, ElementOfSeq DEF Lists
  <2>3. QED BY <2>1, <2>2
<1>4. a + 1 \in Int /\ b \in Int
  OBVIOUS
<1>5. SubSeq(pages, a + 1, b) \in Seq(Page)
  BY <1>3, <1>4, SubSeqProperties
<1>6. QED BY <1>2, <1>5 DEF Taken, Lists

LEMMA PartsAreLists ==
  ASSUME NEW pages \in Lists, NEW runs \in Seq(Spans(Len(pages)))
  PROVE  PartsOf(pages, runs) \in Seq(Lists) /\ Len(PartsOf(pages, runs)) = Len(runs)
<1>1. PICK n \in Nat : n = Len(runs) /\ DOMAIN runs = 1..n
  BY LenProperties
<1>2. PICK S : S = Spans(Len(pages))
  OBVIOUS
<1>3. \A r \in 1..n : runs[r] \in S
  BY <1>1, <1>2, ElementOfSeq
<1>4. \A r \in 1..n : Taken(pages, runs[r]) \in Lists
  BY <1>2, <1>3, TakenPages
<1>5. PICK parts : parts = [r \in 1..n |-> Taken(pages, runs[r])]
  OBVIOUS
<1>6. parts \in [1..n -> Lists]
  BY <1>4, <1>5
<1>7. parts \in Seq(Lists) /\ Len(parts) = n
  BY <1>6, SeqDef
<1>8. QED BY <1>1, <1>5, <1>7 DEF PartsOf

LEMMA CoveredMore ==
  ASSUME NEW pages \in Lists, NEW runs \in Seq(Spans(Len(pages))),
         NEW run \in Spans(Len(pages)), NEW more, more = Append(runs, run)
  PROVE  /\ Covered(pages, more) = Covered(pages, runs) \o Taken(pages, run)
         /\ Covered(pages, runs) \in Lists
<1>1. PICK n \in Nat : n = Len(runs)
  BY LenProperties
<1>2. PICK S : S = Spans(Len(pages))
  OBVIOUS
<1>3. /\ more \in Seq(S) /\ Len(more) = n + 1 /\ more[n + 1] = run
      /\ \A r \in 1..n : more[r] = runs[r]
  BY <1>1, <1>2, AppendProperties
<1>4. DOMAIN runs = 1..n /\ DOMAIN more = 1..(n + 1)
  BY <1>1, <1>2, <1>3, LenProperties
<1>5. PICK parts \in Seq(Lists) : parts = PartsOf(pages, runs) /\ Len(parts) = n
  BY <1>1, PartsAreLists
<1>6. PICK all \in Seq(Lists) : all = PartsOf(pages, more) /\ Len(all) = n + 1
  BY <1>2, <1>3, PartsAreLists
<1>7. PICK part \in Lists : part = Taken(pages, run)
  BY TakenPages
<1>8. PICK longer : longer = Append(parts, part)
  OBVIOUS
<1>9. /\ longer \in Seq(Lists) /\ Len(longer) = n + 1 /\ longer[n + 1] = part
      /\ \A r \in 1..n : longer[r] = parts[r]
  BY <1>5, <1>8, AppendProperties
<1>10. ASSUME NEW r \in 1..(n + 1) PROVE all[r] = longer[r]
  <2>1. all[r] = Taken(pages, more[r])
    BY <1>4, <1>6 DEF PartsOf
  <2>2. CASE r = n + 1
    BY <1>3, <1>7, <1>9, <2>1, <2>2
  <2>3. CASE r # n + 1
    <3>1. r \in 1..n
      BY <2>3
    <3>2. parts[r] = Taken(pages, runs[r])
      BY <1>4, <1>5, <3>1 DEF PartsOf
    <3>3. QED BY <1>3, <1>9, <2>1, <3>1, <3>2
  <2>4. QED BY <2>2, <2>3
<1>11. all = longer
  BY <1>6, <1>9, <1>10, SeqEqual
<1>12. Gathered(longer).pages = Gathered(parts).pages \o part
  BY <1>8, GatheredMore
<1>13. Gathered(parts).pages \in Lists
  BY GatheredParts
<1>14. QED BY <1>5, <1>6, <1>7, <1>11, <1>12, <1>13 DEF Covered

\* A position joins the last run, or starts one of its own.
LEMMA JoinedCovers ==
  ASSUME NEW pages \in Lists, NEW runs \in Seq(Spans(Len(pages))), NEW i \in 0..(Len(pages) - 1)
  PROVE  /\ Joined(runs, i) \in Seq(Spans(Len(pages)))
         /\ Covered(pages, Joined(runs, i)) = Covered(pages, runs) \o <<pages[i + 1]>>
<1>1. PICK n \in Nat : n = Len(pages)
  BY LenProperties DEF Lists
<1>2. PICK S : S = Spans(n)
  OBVIOUS
<1>3. i \in Nat /\ i + 1 \in 1..n /\ i < i + 1 /\ i + 1 <= n
  BY <1>1
<1>4. PICK page \in Page : page = pages[i + 1]
  BY <1>1, <1>3, ElementOfSeq DEF Lists
<1>5. CASE ~(runs # << >> /\ Last(runs)[2] = i)
  <2>1. PICK run : run = <<i, i + 1>>
    OBVIOUS
  <2>2. run \in S /\ run[1] = i /\ run[2] = i + 1
    BY <1>2, <1>3, <2>1, SpanFacts
  <2>3. Joined(runs, i) = Append(runs, run)
    BY <1>5, <2>1 DEF Joined
  <2>4. PICK more : more = Append(runs, run)
    OBVIOUS
  <2>5. more \in Seq(S)
    BY <1>1, <1>2, <2>2, <2>4, AppendProperties
  <2>6. Taken(pages, run) = <<page>>
    <3>1. PICK k \in Int : k = i + 1 /\ k - k + 1 = 1 /\ k + 1 - 1 = k /\ k <= k
      BY <1>3
    <3>2. PICK cut : cut = SubSeq(pages, k, k)
      OBVIOUS
    <3>3. \A j \in k..k : pages[j] \in Page
      BY <1>4, <3>1
    <3>4. /\ cut \in Seq(Page) /\ Len(cut) = IF k <= k THEN k - k + 1 ELSE 0
          /\ \A j \in 1..(k - k + 1) : cut[j] = pages[k + j - 1]
      BY <3>2, <3>3, SubSeqProperties
    <3>5. Len(cut) = 1 /\ cut[1] = page
      <4>1. Len(cut) = 1
        BY <3>1, <3>4
      <4>2. PICK j \in 1..(k - k + 1) : j = 1
        BY <3>1
      <4>3. cut[j] = pages[k + j - 1]
        BY <3>4
      <4>4. k + j - 1 = i + 1
        BY <3>1, <4>2
      <4>5. QED BY <1>4, <4>1, <4>2, <4>3, <4>4
    <3>6. cut = <<page>>
      BY <3>4, <3>5
    <3>7. QED BY <2>2, <3>1, <3>2, <3>6 DEF Taken
  <2>7. Covered(pages, more) = Covered(pages, runs) \o <<page>>
    BY <1>1, <1>2, <2>2, <2>4, <2>6, CoveredMore
  <2>8. QED BY <1>1, <1>2, <1>4, <2>3, <2>4, <2>5, <2>7
<1>6. CASE runs # << >> /\ Last(runs)[2] = i
  <2>1. PICK front \in Seq(S), last \in S : runs = Append(front, last)
    BY <1>1, <1>2, <1>6, SequenceEmptyOrAppend
  <2>2. PICK m \in Nat : m = Len(front)
    BY LenProperties
  <2>3. /\ Len(runs) = m + 1 /\ runs[m + 1] = last /\ \A r \in 1..m : runs[r] = front[r]
    BY <2>1, <2>2, AppendProperties
  <2>4. Last(runs) = last /\ last[2] = i
    BY <1>6, <2>3 DEF Last
  <2>5. Front(runs) = front
    <3>1. Front(runs) = SubSeq(runs, 1, m)
      BY <2>2, <2>3 DEF Front
    <3>2. \A r \in 1..m : runs[r] \in S
      BY <2>2, <2>3, ElementOfSeq
    <3>3. PICK cut : cut = SubSeq(runs, 1, m)
      OBVIOUS
    <3>4. cut \in Seq(S) /\ Len(cut) = m /\ \A r \in 1..m : cut[r] = runs[r]
      <4>1. m - 1 + 1 = m /\ (1 <= m \/ m = 0) /\ \A r \in 1..m : 1 + r - 1 = r
        OBVIOUS
      <4>2. 1 \in Int /\ m \in Int
        OBVIOUS
      <4>3. /\ cut \in Seq(S) /\ Len(cut) = IF 1 <= m THEN m - 1 + 1 ELSE 0
            /\ \A r \in 1..(m - 1 + 1) : cut[r] = runs[1 + r - 1]
        BY <3>2, <3>3, <4>2, SubSeqProperties
      <4>4. QED BY <4>1, <4>3
    <3>5. cut = front
      BY <2>2, <2>3, <3>4, SeqEqual
    <3>6. QED BY <3>1, <3>3, <3>5
  <2>6. PICK a \in Nat : a = last[1] /\ a < i
    BY <1>2, <2>4 DEF Spans
  <2>7. PICK run : run = <<a, i + 1>>
    OBVIOUS
  <2>8. run \in S /\ run[1] = a /\ run[2] = i + 1
    BY <1>2, <1>3, <2>6, <2>7, SpanFacts
  <2>9. Joined(runs, i) = Append(front, run)
    BY <1>6, <2>4, <2>5, <2>6, <2>7 DEF Joined
  <2>10. PICK more : more = Append(front, run)
    OBVIOUS
  <2>11. more \in Seq(S)
    BY <2>8, <2>10, AppendProperties
  <2>12. PICK before \in Lists : before = Covered(pages, front)
    BY <1>1, <1>2, <2>1, CoveredMore
  <2>13. PICK end \in Lists : end = Taken(pages, last)
    BY <1>1, <1>2, <2>1, TakenPages
  <2>14. Taken(pages, run) = end \o <<page>>
    <3>1. a + 1 \in 1..n /\ i + 1 \in (a + 1)..n /\ (i + 1) - 1 = i
      BY <1>3, <2>6
    <3>2. SubSeq(pages, a + 1, i + 1) = SubSeq(pages, a + 1, (i + 1) - 1) \o <<pages[i + 1]>>
      BY <1>1, <3>1, SubSeqRecursiveSecond DEF Lists
    <3>3. QED BY <1>4, <2>4, <2>6, <2>8, <2>13, <3>1, <3>2 DEF Taken
  <2>15. Covered(pages, runs) = before \o end
    BY ZenonT(60), <1>1, <1>2, <2>1, <2>12, <2>13, CoveredMore
  <2>16. Covered(pages, more) = before \o (end \o <<page>>)
    <3>1. Covered(pages, more) = Covered(pages, front) \o Taken(pages, run)
      BY <1>1, <1>2, <2>8, <2>10, CoveredMore
    <3>2. QED BY <2>12, <2>14, <3>1
  <2>17. <<page>> \in Lists
    BY DEF Lists
  <2>18. (before \o end) \o <<page>> = before \o (end \o <<page>>)
    BY SMTT(30), <2>17, ConcatAssociative DEF Lists
  <2>19. QED BY <1>1, <1>2, <1>4, <2>9, <2>10, <2>11, <2>15, <2>16, <2>18
<1>7. QED BY <1>5, <1>6
CoversInOrder(pages, runs, m, indices) ==
  /\ runs \in Seq(Spans(Len(pages)))
  /\ Covered(pages, runs) \in Lists /\ Len(Covered(pages, runs)) = m
  /\ \A k \in 1..m : Covered(pages, runs)[k] = pages[indices[k] + 1]

LEMMA RunsCover ==
  ASSUME NEW pages \in Lists, NEW m \in Nat, NEW indices, Len(indices) = m,
         \A k \in 1..m : indices[k] \in 0..(Len(pages) - 1)
  PROVE  CoversInOrder(pages, ContiguousRuns(indices), m, indices)
<1>1. PICK X : X = Seq(Spans(Len(pages)))
  OBVIOUS
<1> DEFINE Step(R, k) == IF k = 0 THEN << >> ELSE Joined(R[k - 1], indices[k])
           runs == CHOOSE R : R = [k \in 0..m |-> Step(R, k)]
           G == [k \in 1..m |-> [r \in X |-> Joined(r, indices[k])]]
<1>2. PICK base \in X : base = << >>
  BY <1>1, EmptySeq
<1>3. \A k \in 1..m, r \in X : Joined(r, indices[k]) \in X
  BY <1>1, JoinedCovers
<1>4. PICK g : Unrolls(X, m, base, G, g)
  <2>1. G \in [1..m -> [X -> X]]
    BY <1>3
  <2> HIDE DEF G
  <2>2. QED BY <2>1, Unrolling
<1>5. g = [k \in 0..m |-> Step(g, k)]
  <2>1. g \in [0..m -> X] /\ g[0] = << >> /\ \A k \in 1..m : g[k] = G[k][g[k - 1]]
    BY <1>2, <1>4 DEF Unrolls
  <2>2. ASSUME NEW k \in 0..m PROVE g[k] = Step(g, k)
    <3>1. CASE k = 0
      BY <2>1, <3>1
    <3>2. CASE k # 0
      <4>1. k \in 1..m /\ k - 1 \in 0..m
        BY <3>2
      <4>2. g[k - 1] \in X
        BY <2>1, <4>1
      <4>3. G[k][g[k - 1]] = Joined(g[k - 1], indices[k])
        BY <4>1, <4>2
      <4>4. QED BY <2>1, <3>2, <4>1, <4>3
    <3>3. QED BY <3>1, <3>2
  <2> HIDE DEF Step
  <2>3. QED BY <2>1, <2>2
<1>6. runs = [k \in 0..m |-> Step(runs, k)]
  <2>1. \E R : R = [k \in 0..m |-> Step(R, k)]
    <3> HIDE DEF Step
    <3>1. QED BY <1>5, Zenon
  <2>2. QED BY <2>1
<1>7. \A k \in 0..m : runs[k] = Step(runs, k)
  BY <1>6
<1>8. ContiguousRuns(indices) = runs[m]
  BY DEF ContiguousRuns
<1> HIDE DEF runs
<1> DEFINE At(k) == Covered(pages, runs[k])
           Right(k) == /\ runs[k] \in X /\ At(k) \in Lists /\ Len(At(k)) = k
                       /\ \A j \in 1..k : At(k)[j] = pages[indices[j] + 1]
           T == {k \in Nat : k <= m => Right(k)}
<1>9. 0 \in T
  <2>1. runs[0] = << >>
    BY <1>7
  <2>2. PICK parts : parts = PartsOf(pages, << >>)
    OBVIOUS
  <2>3. parts = << >>
    BY <2>2 DEF PartsOf
  <2>4. At(0) = << >>
    BY <2>1, <2>2, <2>3, GatheredNothing DEF Covered
  <2>5. << >> \in Lists /\ Len(<< >>) = 0
    BY EmptySeq DEF Lists
  <2> HIDE DEF At
  <2>6. QED BY <1>2, <2>1, <2>4, <2>5
<1>10. ASSUME NEW k \in Nat, k \in T PROVE k + 1 \in T
  <2> SUFFICES ASSUME k + 1 <= m PROVE Right(k + 1)
    OBVIOUS
  <2>1. k + 1 \in 1..m /\ k + 1 \in 0..m /\ (k + 1) - 1 = k /\ k + 1 # 0
    OBVIOUS
  <2>2. Right(k)
    BY <1>10
  <2>3. PICK i \in 0..(Len(pages) - 1) : i = indices[k + 1]
    BY <2>1
  <2>4. runs[k + 1] = Joined(runs[k], i)
    BY <1>7, <2>1, <2>3
  <2>5. PICK before \in Lists : /\ before = At(k) /\ Len(before) = k
                                /\ \A j \in 1..k : before[j] = pages[indices[j] + 1]
    BY <2>2
  <2>6. runs[k + 1] \in X /\ At(k + 1) = before \o <<pages[i + 1]>>
    BY ZenonT(60), <1>1, <2>2, <2>4, <2>5, JoinedCovers
  <2>7. PICK page \in Page : page = pages[i + 1]
    <3>1. PICK n \in Nat : n = Len(pages)
      BY LenProperties DEF Lists
    <3>2. i + 1 \in 1..n
      BY <3>1
    <3>3. QED BY <3>1, <3>2, ElementOfSeq DEF Lists
  <2>8. PICK now : now = before \o <<page>>
    OBVIOUS
  <2>9. now = Append(before, page)
    BY <2>8, AppendIsConcat DEF Lists
  <2>10. /\ now \in Lists /\ Len(now) = k + 1 /\ now[k + 1] = page
         /\ \A j \in 1..k : now[j] = before[j]
    BY SMTT(30), <2>5, <2>9, AppendProperties DEF Lists
  <2>11. At(k + 1) = now
    BY <2>6, <2>7, <2>8
  <2>12. \A j \in 1..(k + 1) : now[j] = pages[indices[j] + 1]
    <3>1. \A j \in 1..(k + 1) : j \in 1..k \/ j = k + 1
      OBVIOUS
    <3>2. QED BY <2>3, <2>5, <2>7, <2>10, <3>1
  <2> HIDE DEF At
  <2>13. QED BY <2>6, <2>10, <2>11, <2>12
<1> HIDE DEF T
<1>11. m \in T
  BY <1>9, <1>10, EveryNumber
<1>12. QED BY <1>1, <1>8, <1>11 DEF T, CoversInOrder

-----------------------------------------------------------------------------
\* A selection names the pages it spans, each once.

Picked(selection, n) ==
  {i \in 1..n : \E k \in DOMAIN selection :
     selection[k].first <= i /\ i <= LastOf(selection[k], n)}
Positions(chosen) == {i - 1 : i \in chosen}

LEMMA SelectionResolves ==
  ASSUME NEW selection, SelectionOK(selection), NEW n \in Nat \ {0}, Fits(selection, n)
  PROVE  /\ Resolved(selection, n) = Ascending(Positions(Picked(selection, n)))
         /\ Picked(selection, n) # {}
<1>1. PICK m \in Nat : m = Len(selection) /\ m >= 1 /\ DOMAIN selection = 1..m
  BY LenProperties DEF SelectionOK
<1>2. ASSUME NEW k \in 1..m
      PROVE  /\ selection[k].first \in Nat \ {0} /\ selection[k].first <= n
             /\ LastOf(selection[k], n) \in Nat /\ LastOf(selection[k], n) <= n
             /\ selection[k].first <= LastOf(selection[k], n)
  <2>1. PICK part \in Part : part = selection[k]
    BY <1>1, ElementOfSeq DEF SelectionOK
  <2>2. /\ part.first <= n /\ LastOf(part, n) <= n
        /\ part.last = OpenEnd \/ part.first <= part.last
    BY <1>1, <2>1 DEF Fits, SelectionOK
  <2>3. QED BY <2>1, <2>2 DEF Part, LastOf
<1>3. UNION {NamedBy(selection[k], n) : k \in DOMAIN selection} =
        Positions(Picked(selection, n))
  <2> DEFINE Left == UNION {NamedBy(selection[k], n) : k \in DOMAIN selection}
  <2>1. ASSUME NEW x \in Left PROVE x \in Positions(Picked(selection, n))
    <3>1. PICK k \in 1..m : x \in NamedBy(selection[k], n)
      BY <1>1
    <3>2. PICK a \in Nat \ {0}, b \in Nat :
            a = selection[k].first /\ b = LastOf(selection[k], n) /\ b <= n
      BY <1>2
    <3>3. x \in (a - 1)..(b - 1)
      BY <3>1, <3>2 DEF NamedBy
    <3>4. PICK i \in 1..n : i = x + 1 /\ a <= i /\ i <= b /\ x = i - 1
      BY <3>2, <3>3
    <3>5. i \in Picked(selection, n)
      BY <1>1, <3>2, <3>4 DEF Picked
    <3>6. QED BY <3>4, <3>5 DEF Positions
  <2>2. ASSUME NEW x \in Positions(Picked(selection, n)) PROVE x \in Left
    <3>1. PICK i \in Picked(selection, n) : x = i - 1
      BY DEF Positions
    <3>2. PICK k \in 1..m : selection[k].first <= i /\ i <= LastOf(selection[k], n)
      BY <1>1 DEF Picked
    <3>3. PICK a \in Nat \ {0}, b \in Nat :
            a = selection[k].first /\ b = LastOf(selection[k], n)
      BY <1>2
    <3>4. i \in Nat
      BY DEF Picked
    <3>5. x \in (a - 1)..(b - 1)
      BY <3>1, <3>2, <3>3, <3>4
    <3>6. x \in NamedBy(selection[k], n)
      BY <3>3, <3>5 DEF NamedBy
    <3>7. QED BY <1>1, <3>6
  <2>3. QED BY <2>1, <2>2
<1>4. Picked(selection, n) # {}
  <2>1. 1 \in 1..m
    BY <1>1
  <2>2. PICK a \in Nat \ {0}, b \in Nat :
          /\ a = selection[1].first /\ b = LastOf(selection[1], n)
          /\ a <= n /\ a <= b
    BY <1>2, <2>1
  <2>3. a \in Picked(selection, n)
    BY <1>1, <2>1, <2>2 DEF Picked
  <2>4. QED BY <2>3
<1>5. QED BY <1>3, <1>4 DEF Resolved

\* Positions count from 0 what pages count from 1.
LEMMA PositionsAsMany ==
  ASSUME NEW chosen \in SUBSET Int, NEW n \in Nat, Cardinality(Positions(chosen)) = n,
         IsFiniteSet(Positions(chosen))
  PROVE  Cardinality(chosen) = n
<1>1. PICK S : S = Positions(chosen)
  OBVIOUS
<1>2. PICK f : f = [x \in S |-> x + 1]
  OBVIOUS
<1>3. \A x \in S : x \in Int /\ x + 1 \in chosen /\ f[x] = x + 1
  BY <1>1, <1>2 DEF Positions
<1>4. f \in [S -> chosen]
  BY <1>2, <1>3
<1>5. \A i \in chosen : i - 1 \in S /\ f[i - 1] = i
  BY <1>1, <1>2 DEF Positions
<1>6. f \in Injection(S, chosen)
  BY <1>3, <1>4 DEF Injection, IsInjective
<1>7. f \in Surjection(S, chosen)
  BY <1>4, <1>5 DEF Surjection
<1>8. ExistsBijection(S, chosen)
  BY <1>6, <1>7 DEF ExistsBijection, Bijection
<1>9. QED BY <1>1, <1>8, FS_Bijection

\* The page with i chosen pages up to it, itself counted, is the one at the
\* i-th position.
Nth(chosen, i) == CHOOSE j \in chosen : Cardinality({h \in chosen : h <= j}) = i

Places(chosen, n, s) ==
  /\ Cardinality(chosen) \in Nat /\ s \in Seq(0..(n - 1)) /\ Len(s) = Cardinality(chosen)
  /\ \A i \in 1..Cardinality(chosen) : Nth(chosen, i) = s[i] + 1
  /\ {x + 1 : x \in ToSet(s)} = chosen

LEMMA PlacesAgree ==
  ASSUME NEW n \in Nat, NEW chosen \in SUBSET (1..n), NEW s, s = Ascending(Positions(chosen))
  PROVE  Places(chosen, n, s)
<1>1. PICK S \in SUBSET (0..(n - 1)) : S = Positions(chosen)
  <2>1. Positions(chosen) \in SUBSET (0..(n - 1))
    BY DEF Positions
  <2>2. QED BY <2>1
<1>2. PICK m \in Nat : m = Cardinality(S) /\ Ordered(S, s, m)
  <2>1. s = Ascending(S)
    BY <1>1
  <2>2. Ordered(S, s, Cardinality(S))
    BY <2>1, AscendingOrders
  <2>3. Cardinality(S) \in Nat
    BY <2>2 DEF Ordered
  <2>4. QED BY <2>2, <2>3
<1>3. Cardinality(chosen) = m
  <2>1. chosen \in SUBSET Int
    OBVIOUS
  <2>2. QED BY <1>1, <1>2, <2>1, PositionsAsMany DEF Ordered
<1>4. /\ s \in [1..m -> S] /\ \A x \in S : \E i \in 1..m : s[i] = x
      /\ \A i \in 1..m : Cardinality({x \in S : x <= s[i]}) = i
  BY <1>2 DEF Ordered
<1>5. \A i \in 1..m : s[i] \in 0..(n - 1) /\ s[i] \in S
  BY <1>4
<1>6. s \in Seq(0..(n - 1)) /\ Len(s) = m
  <2>1. s \in [1..m -> 0..(n - 1)]
    BY <1>4, <1>5
  <2>2. QED BY <2>1, SeqDef
<1>7. \A x \in S : x \in Int /\ x + 1 \in chosen
  BY <1>1 DEF Positions
<1>8. \A j \in chosen : j \in Int /\ j - 1 \in S
  BY <1>1 DEF Positions
<1>9. ASSUME NEW j \in chosen, NEW i \in 1..m, s[i] = j - 1
      PROVE  Cardinality({h \in chosen : h <= j}) = i
  <2>1. PICK up \in SUBSET Int : up = {h \in chosen : h <= j}
    BY <1>8
  <2>2. Positions(up) = {x \in S : x <= s[i]}
    <3>1. ASSUME NEW x \in Positions(up) PROVE x \in {y \in S : y <= s[i]}
      <4>1. PICK h \in chosen : x = h - 1 /\ h <= j
        BY <2>1 DEF Positions
      <4>2. h - 1 <= j - 1
        BY <1>8, <4>1
      <4>3. QED BY <1>8, <1>9, <4>1, <4>2
    <3>2. ASSUME NEW x \in S, x <= s[i] PROVE x \in Positions(up)
      <4>1. PICK h \in chosen : h = x + 1
        BY <1>7
      <4>2. x = h - 1 /\ h <= j
        BY <1>7, <1>8, <1>9, <3>2, <4>1
      <4>3. QED BY <2>1, <4>1, <4>2 DEF Positions
    <3>3. QED BY <3>1, <3>2
  <2>3. Cardinality(Positions(up)) = i
    BY <1>4, <2>2
  <2>4. IsFiniteSet(Positions(up))
    <3>1. IsFiniteSet(S) /\ Positions(up) \in SUBSET S
      BY <1>2, <2>2 DEF Ordered
    <3>2. QED BY <3>1, FS_Subset
  <2>5. i \in Nat
    OBVIOUS
  <2>6. QED BY <2>1, <2>3, <2>4, <2>5, PositionsAsMany
<1>10. ASSUME NEW i \in 1..m
       PROVE  Nth(chosen, i) = s[i] + 1
  <2> DEFINE Rank(j) == Cardinality({h \in chosen : h <= j})
  <2>1. PICK j \in chosen : j = s[i] + 1
    BY <1>5, <1>7
  <2>2. s[i] = j - 1
    BY <1>5, <1>7, <2>1
  <2>3. Rank(j) = i
    BY <1>9, <2>2
  <2>4. ASSUME NEW h \in chosen, Rank(h) = i PROVE h = j
    <3>1. PICK k \in 1..m : s[k] = h - 1
      BY <1>4, <1>8
    <3>2. Rank(h) = k
      BY <1>9, <3>1
    <3>3. h - 1 = j - 1
      BY <2>2, <2>4, <3>1, <3>2
    <3>4. QED BY <1>8, <3>3
  <2> HIDE DEF Rank
  <2>5. (CHOOSE h \in chosen : Rank(h) = i) = j
    BY <2>3, <2>4
  <2>6. QED BY <2>1, <2>5 DEF Rank, Nth
<1>11. {x + 1 : x \in ToSet(s)} = chosen
  <2>1. ToSet(s) = S
    <3>1. DOMAIN s = 1..m
      BY <1>4
    <3>2. QED BY ZenonT(60), <1>4, <1>5, <3>1 DEF ToSet
  <2>2. \A j \in chosen : j = (j - 1) + 1 /\ j - 1 \in S
    BY <1>8
  <2>3. QED BY <1>7, <2>1, <2>2
<1>12. QED BY <1>3, <1>6, <1>10, <1>11 DEF Places

-----------------------------------------------------------------------------
\* The operations give what was asked

OpenDocuments == {d \in Contents : d.state = "pdf" /\ d.pages # << >>}

LEMMA OpenDocument ==
  /\ \A d \in OpenDocuments : d.pages \in Lists /\ d.pages # << >> /\ d.hidden \in SUBSET Page
  /\ \A pages \in Lists, hidden \in SUBSET Page :
       /\ Pdf(pages, hidden).pages = pages /\ Pdf(pages, hidden).hidden = hidden
       /\ pages # << >> => Pdf(pages, hidden) \in OpenDocuments
<1>1. ASSUME NEW pages \in Lists, NEW hidden \in SUBSET Page
      PROVE  /\ Pdf(pages, hidden).pages = pages /\ Pdf(pages, hidden).hidden = hidden
             /\ pages # << >> => Pdf(pages, hidden) \in OpenDocuments
  <2>1. PICK d : d = [state |-> "pdf", pages |-> pages, hidden |-> hidden]
    OBVIOUS
  <2>2. d \in Contents
    BY <2>1 DEF Contents, Lists
  <2>3. Pdf(pages, hidden) = d
    BY <2>1 DEF Pdf
  <2>4. QED BY <2>1, <2>2, <2>3 DEF OpenDocuments
<1>2. QED BY <1>1 DEF OpenDocuments, Contents, Lists

LEMMA MergedDocument ==
  ASSUME NEW opened \in Seq(OpenDocuments), Len(opened) >= 1, NEW named
  PROVE  LET d == Compacted(Merged(opened), named)
         IN  /\ d \in OpenDocuments /\ d.hidden = {}
             /\ d.pages = FlattenSeq([i \in DOMAIN opened |-> opened[i].pages])
<1>1. PICK n \in Nat : n = Len(opened) /\ DOMAIN opened = 1..n /\ n >= 1
  BY LenProperties
<1>2. \A i \in 1..n : opened[i].pages \in Lists /\ opened[i].pages # << >>
  <2>1. \A i \in 1..n : opened[i] \in OpenDocuments
    BY <1>1, ElementOfSeq
  <2>2. QED BY <2>1, OpenDocument
<1>3. PICK parts : parts = [i \in DOMAIN opened |-> opened[i].pages]
  OBVIOUS
<1>4. parts \in Seq(Lists) /\ Len(parts) = n /\ \A i \in 1..n : parts[i] # << >>
  <2>1. parts \in [1..n -> Lists]
    BY <1>1, <1>2, <1>3
  <2>2. QED BY <1>1, <1>2, <1>3, <2>1, SeqDef
<1>5. PICK pages \in Lists :
        /\ pages = Gathered(parts).pages /\ Gathered(parts) = Pdf(pages, {})
        /\ pages = FlattenSeq(parts)
  BY <1>1, <1>4, GatheredParts
<1>6. pages # << >>
  <2>1. PICK f : Joins(parts, n, f)
    BY <1>4, PartsJoin
  <2>2. pages = f[n]
    BY <1>1, <1>4, <1>5, <2>1, FlattenJoins
  <2>3. n \in 1..n /\ n - 1 \in 0..n
    BY <1>1
  <2>4. f[n] = f[n - 1] \o parts[n] /\ f[n - 1] \in Lists
    BY <2>1, <2>3 DEF Joins
  <2>5. PICK before \in Lists, last \in Lists :
          before = f[n - 1] /\ last = parts[n] /\ last # << >>
    BY <1>4, <2>3, <2>4, ElementOfSeq
  <2>6. before \o last # << >>
    BY <2>5, ConcatEqualIffEmpty DEF Lists
  <2>7. QED BY <2>2, <2>4, <2>5, <2>6
<1>7. Merged(opened) = Pdf(pages, {})
  BY <1>3, <1>5 DEF Merged
<1>8. Compacted(Merged(opened), named) = Pdf(pages, {})
  BY <1>7 DEF Compacted, Pdf
<1>9. {} \in SUBSET Page
  OBVIOUS
<1>10. QED BY <1>3, <1>5, <1>6, <1>8, <1>9, OpenDocument

LEMMA SplitDocuments ==
  ASSUME NEW d \in OpenDocuments, NEW at \in Nat, IsBoundary(at, Len(d.pages)), NEW named
  PROVE  /\ Compacted(HeadOf(d, at), named) \in OpenDocuments
         /\ Compacted(HeadOf(d, at), named).hidden
              \subseteq d.hidden \cup ToSet(SubSeq(d.pages, at, Len(d.pages)))
         /\ Compacted(HeadOf(d, at), named).pages = SubSeq(d.pages, 1, at - 1)
         /\ Compacted(TailOf(d, at), named) \in OpenDocuments /\ Compacted(TailOf(d, at), named).hidden = {}
         /\ Compacted(TailOf(d, at), named).pages = SubSeq(d.pages, at, Len(d.pages))
<1>1. PICK pages \in Lists : pages = d.pages
  BY OpenDocument
<1>2. PICK n \in Nat : n = Len(pages) /\ 2 <= at /\ at <= n
  BY <1>1, LenProperties DEF IsBoundary, Lists
<1>3. \A i \in 1..n : pages[i] \in Page
  BY <1>2, ElementOfSeq DEF Lists
<1>4. PICK head : head = SubSeq(pages, 1, at - 1)
  OBVIOUS
<1>5. PICK tail : tail = SubSeq(pages, at, n)
  OBVIOUS
<1>6. head \in Lists /\ head # << >>
  <2>1. 1 \in Int /\ at - 1 \in Int /\ \A i \in 1..(at - 1) : i \in 1..n
    BY <1>2
  <2>2. head \in Seq(Page) /\ Len(head) = IF 1 <= at - 1 THEN (at - 1) - 1 + 1 ELSE 0
    BY <1>3, <1>4, <2>1, SubSeqProperties
  <2>3. Len(head) # 0
    BY <1>2, <2>2
  <2>4. QED BY <2>2, <2>3, EmptySeq DEF Lists
<1>7. tail \in Lists /\ tail # << >>
  <2>1. at \in Int /\ n \in Int /\ \A i \in at..n : i \in 1..n
    BY <1>2
  <2>2. tail \in Seq(Page) /\ Len(tail) = IF at <= n THEN n - at + 1 ELSE 0
    BY ZenonT(60), <1>3, <1>5, <2>1, SubSeqProperties
  <2>3. Len(tail) # 0
    BY <1>2, <2>2
  <2>4. QED BY <2>2, <2>3, EmptySeq DEF Lists
<1>given. PICK given : given = d.hidden \cup ToSet(tail)
  OBVIOUS
<1>hidden. PICK hidden : hidden = given \cap named
  OBVIOUS
<1>8. Compacted(HeadOf(d, at), named) = Pdf(head, hidden)
  BY <1>1, <1>2, <1>4, <1>5, <1>given, <1>hidden DEF HeadOf, Compacted, Pdf
<1>9. Compacted(TailOf(d, at), named) = Pdf(tail, {})
  <2>1. << >> \o tail = tail
    BY <1>7, ConcatEmptySeq DEF Lists
  <2>2. TailOf(d, at) = Pdf(<< >> \o tail, {})
    BY <1>1, <1>2, <1>5 DEF TailOf, Extended, Empty, Pdf
  <2>3. QED BY <2>1, <2>2 DEF Compacted, Pdf
<1>10. {} \in SUBSET Page /\ hidden \in SUBSET Page /\ hidden \subseteq given
  <2>1. ToSet(tail) \subseteq Page
    BY <1>7, ElementOfSeq, LenProperties DEF ToSet, Lists
  <2>2. d.hidden \in SUBSET Page
    BY OpenDocument
  <2>3. QED BY <1>given, <1>hidden, <2>1, <2>2
<1>11. /\ Pdf(head, hidden) \in OpenDocuments /\ Pdf(head, hidden).hidden = hidden
       /\ Pdf(head, hidden).pages = head
  BY <1>6, <1>10, OpenDocument
<1>12. /\ Pdf(tail, {}) \in OpenDocuments /\ Pdf(tail, {}).hidden = {}
       /\ Pdf(tail, {}).pages = tail
  BY <1>7, <1>10, OpenDocument
<1>13. QED BY <1>1, <1>2, <1>4, <1>5, <1>8, <1>9, <1>10, <1>11, <1>12, <1>given

PagesTurned(d, chosen, turns, rotated) ==
  /\ rotated \in OpenDocuments /\ rotated.hidden = d.hidden
  /\ rotated.pages =
       [i \in DOMAIN d.pages |->
          IF i \in chosen THEN [d.pages[i] EXCEPT !.turns = turns] ELSE d.pages[i]]
PagesKept(d, chosen, extracted) ==
  /\ extracted \in OpenDocuments /\ extracted.hidden = {}
  /\ extracted.pages = [i \in 1..Cardinality(chosen) |-> d.pages[Nth(chosen, i)]]

LEMMA RotatedDocument ==
  ASSUME NEW d \in OpenDocuments, NEW selection, SelectionOK(selection),
         Fits(selection, Len(d.pages)), NEW turns \in 0..3,
         NEW rotated, rotated = Appended(Rotated(d, Resolved(selection, Len(d.pages)), turns))
  PROVE  PagesTurned(d, Picked(selection, Len(d.pages)), turns, rotated)
<1>1. PICK pages \in Lists : pages = d.pages /\ pages # << >>
  BY OpenDocument
<1>2. PICK n \in Nat \ {0} : n = Len(pages) /\ DOMAIN pages = 1..n
  <2>1. Len(pages) \in Nat \ {0}
    BY <1>1, EmptySeq DEF Lists
  <2>2. QED BY <2>1, LenProperties DEF Lists
<1>3. \A i \in 1..n : pages[i] \in Page
  BY <1>2, ElementOfSeq DEF Lists
<1>4. PICK chosen \in SUBSET (1..n) : chosen = Picked(selection, n)
  BY DEF Picked
<1>5. PICK indices : indices = Resolved(selection, n) /\ indices = Ascending(Positions(chosen))
  BY <1>1, <1>2, <1>4, SelectionResolves
<1>6. {i + 1 : i \in ToSet(indices)} = chosen
  BY <1>5, PlacesAgree DEF Places
<1>7. PICK turned : turned = [i \in 1..n |-> IF i \in chosen
                                             THEN [pages[i] EXCEPT !.turns = turns]
                                             ELSE pages[i]]
  OBVIOUS
<1>8. turned \in Lists /\ turned # << >>
  <2>1. \A page \in Page : [page EXCEPT !.turns = turns] \in Page
    BY DEF Page
  <2>2. turned \in [1..n -> Page]
    BY <1>3, <1>7, <2>1
  <2>3. turned \in Seq(Page) /\ Len(turned) = n
    BY <2>2, SeqDef
  <2>4. QED BY <2>3, EmptySeq DEF Lists
<1>9. PICK hidden \in SUBSET Page : hidden = d.hidden
  BY OpenDocument
<1>10. Rotated(d, indices, turns) = Pdf(turned, hidden)
  <2>1. Rotated(d, indices, turns) =
          Pdf([i \in DOMAIN d.pages |->
                 IF i \in chosen THEN [d.pages[i] EXCEPT !.turns = turns] ELSE d.pages[i]],
              d.hidden)
    BY <1>6 DEF Rotated
  <2>2. QED BY <1>1, <1>2, <1>7, <1>9, <2>1
<1>11. Appended(Rotated(d, indices, turns)) = Pdf(turned, hidden)
  BY <1>10 DEF Appended
<1>12. /\ Pdf(turned, hidden) \in OpenDocuments /\ Pdf(turned, hidden).pages = turned
       /\ Pdf(turned, hidden).hidden = hidden
  BY <1>8, OpenDocument
<1>13. QED BY <1>1, <1>2, <1>4, <1>5, <1>7, <1>9, <1>11, <1>12 DEF PagesTurned

LEMMA ExtractedDocument ==
  ASSUME NEW d \in OpenDocuments, NEW selection, SelectionOK(selection),
         Fits(selection, Len(d.pages)), NEW chosen, chosen = Picked(selection, Len(d.pages)),
         NEW named, NEW extracted,
         extracted = Compacted(Extracted(d, Resolved(selection, Len(d.pages))), named)
  PROVE  PagesKept(d, chosen, extracted)
<1>1. PICK pages \in Lists : pages = d.pages /\ pages # << >>
  BY OpenDocument
<1>2. PICK n \in Nat \ {0} : n = Len(pages)
  BY <1>1, EmptySeq DEF Lists
<1>3. chosen \in SUBSET (1..n) /\ chosen # {}
  BY <1>1, <1>2, SelectionResolves DEF Picked
<1>4. PICK s : s = Resolved(selection, n) /\ s = Ascending(Positions(chosen))
  BY <1>1, <1>2, SelectionResolves
<1>5. PICK m \in Nat :
        /\ m = Cardinality(chosen) /\ s \in Seq(0..(n - 1)) /\ Len(s) = m
        /\ \A i \in 1..m : Nth(chosen, i) = s[i] + 1
        /\ {x + 1 : x \in ToSet(s)} = chosen
  <2>1. n \in Nat /\ chosen \in SUBSET (1..n) /\ s = Ascending(Positions(chosen))
    BY <1>3, <1>4
  <2>2. Places(chosen, n, s)
    BY <2>1, PlacesAgree
  <2>3. PICK m \in Nat : m = Cardinality(chosen)
    BY <2>2 DEF Places
  <2>4. QED BY <2>2, <2>3 DEF Places
<1>6. \A i \in 1..m : s[i] \in 0..(n - 1)
  BY <1>5, ElementOfSeq
<1>7. PICK runs \in Seq(Spans(n)) : runs = ContiguousRuns(s) /\ CoversInOrder(pages, runs, m, s)
  <2>1. CoversInOrder(pages, ContiguousRuns(s), m, s)
    BY <1>2, <1>5, <1>6, RunsCover
  <2>2. QED BY <1>2, <2>1 DEF CoversInOrder
<1>8. PICK kept \in Lists : /\ kept = Covered(pages, runs) /\ Len(kept) = m
                            /\ \A i \in 1..m : kept[i] = pages[s[i] + 1]
  BY <1>7 DEF CoversInOrder
<1>9. Extracted(d, s) = Pdf(kept, {})
  <2>1. PICK parts \in Seq(Lists) : parts = PartsOf(pages, runs)
    BY <1>2, <1>7, PartsAreLists
  <2>2. Extracted(d, s) = Gathered(parts)
    BY <1>1, <1>7, <2>1 DEF Extracted, PartsOf, Taken
  <2>3. Gathered(parts) = Pdf(Gathered(parts).pages, {})
    BY GatheredParts
  <2>4. QED BY <1>8, <2>1, <2>2, <2>3 DEF Covered
<1>10. Compacted(Extracted(d, s), named) = Pdf(kept, {})
  BY <1>9 DEF Compacted, Pdf
<1>11. kept # << >>
  <2>1. m # 0
    <3>1. PICK j \in chosen : TRUE
      BY <1>3
    <3>2. \E x \in ToSet(s) : TRUE
      BY <1>5, <3>1
    <3>3. DOMAIN s # {}
      BY <3>2 DEF ToSet
    <3>4. DOMAIN s = 1..m
      BY <1>5, LenProperties
    <3>5. QED BY <3>3, <3>4
  <2>2. QED BY <1>8, <2>1, EmptySeq
<1>12. PICK asked : asked = [i \in 1..m |-> pages[Nth(chosen, i)]]
  OBVIOUS
<1>13. kept = asked
  <2>1. \A i \in 1..m : asked[i] = kept[i]
    BY <1>5, <1>8, <1>12
  <2>2. kept \in [1..m -> Page]
    BY <1>8, LenProperties DEF Lists
  <2>3. DOMAIN asked = 1..m /\ DOMAIN kept = 1..m /\ asked = [i \in 1..m |-> asked[i]]
    BY <1>12, <2>2
  <2>4. QED BY <2>1, <2>2, <2>3
<1>14. {} \in SUBSET Page
  OBVIOUS
<1>15. /\ Pdf(kept, {}) \in OpenDocuments /\ Pdf(kept, {}).hidden = {}
       /\ Pdf(kept, {}).pages = kept
  BY <1>11, <1>14, OpenDocument
<1>16. QED BY <1>1, <1>2, <1>4, <1>5, <1>10, <1>12, <1>13, <1>15 DEF PagesKept

\* One result for each file the command writes, and each as it was asked for.
GivesAsked(run, results) ==
  /\ results \in Seq(OpenDocuments)
  /\ Len(results) = Len(Targets(run.asked)) /\ Len(results) >= 1
  /\ \A k \in 1..Len(results) :
       /\ results[k].pages = PagesAsked(run, k)
       /\ results[k].hidden \subseteq Behind(run, k)

LEMMA TargetsAreTexts ==
  ASSUME NEW asked, AskedOK(asked)
  PROVE  /\ Targets(asked) \in Seq(Text)
         /\ asked.command = "split" => Len(Targets(asked)) = 2
         /\ asked.command \in {"merge", "rotate", "extract"} => Len(Targets(asked)) = 1
<1>1. PICK inputs \in Seq(Text), outputs \in Seq(Text) :
        inputs = asked.inputs /\ outputs = asked.outputs
  BY DEF AskedOK, Invocation
<1>2. Len(outputs) \in Nat /\ (outputs = << >> <=> Len(outputs) = 0)
  BY LenProperties, EmptySeq
<1>3. Targets(asked) = IF outputs = << >> THEN inputs ELSE outputs
  BY <1>1 DEF Targets
<1>4. CASE outputs = << >>
  BY <1>1, <1>2, <1>3, <1>4 DEF AskedOK
<1>5. CASE outputs # << >>
  BY <1>1, <1>2, <1>3, <1>5 DEF AskedOK
<1>6. QED BY <1>4, <1>5

LEMMA OneResult ==
  ASSUME NEW run, NEW d \in OpenDocuments, Len(Targets(run.asked)) = 1,
         d.pages = PagesAsked(run, 1), d.hidden \subseteq Behind(run, 1),
         NEW results, results = <<d>>
  PROVE  GivesAsked(run, results)
<1>1. results \in Seq(OpenDocuments) /\ Len(results) = 1 /\ results[1] = d
  OBVIOUS
<1>2. \A k \in 1..1 : k = 1
  OBVIOUS
<1>3. QED BY <1>1, <1>2 DEF GivesAsked

LEMMA TwoResults ==
  ASSUME NEW run, NEW d \in OpenDocuments, NEW e \in OpenDocuments,
         Len(Targets(run.asked)) = 2,
         d.pages = PagesAsked(run, 1), e.pages = PagesAsked(run, 2),
         d.hidden \subseteq Behind(run, 1), e.hidden \subseteq Behind(run, 2),
         NEW results, results = <<d, e>>
  PROVE  GivesAsked(run, results)
<1>1. results \in Seq(OpenDocuments) /\ Len(results) = 2 /\ results[1] = d /\ results[2] = e
  OBVIOUS
<1>2. \A k \in 1..2 : k = 1 \/ k = 2
  OBVIOUS
<1>3. QED BY <1>1, <1>2 DEF GivesAsked

SavingNext(run, results) == [run EXCEPT !.results = results, !.at = "saving"]

LEMMA OperatedIsAsked ==
  ASSUME NEW run, AskedOK(run.asked), run.asked.command \in Working,
         run.opened \in Seq(OpenDocuments), Len(run.opened) = Len(run.asked.inputs),
         NEW named
  PROVE  \/ Operated(run, named) = Ended(run, "misuse") \/ Operated(run, named) = Ended(run, "operation")
         \/ \E results : GivesAsked(run, results) /\ Operated(run, named) = SavingNext(run, results)
<1>1. PICK opened \in Seq(OpenDocuments) : opened = run.opened /\ Len(opened) >= 1
  <2> SUFFICES Len(run.opened) >= 1
    OBVIOUS
  <2>1. PICK n : n = Len(run.asked.inputs)
    OBVIOUS
  <2>2. CASE run.asked.command = "merge"
    BY <2>2 DEF AskedOK
  <2>3. CASE run.asked.command \in {"split", "rotate", "extract"}
    <3>1. n = 1
      BY <2>1, <2>3 DEF AskedOK
    <3>2. Len(run.opened) = n
      BY <2>1
    <3>3. QED BY <3>1, <3>2
  <2>4. QED BY <2>2, <2>3 DEF Working
<1>2. PICK d \in OpenDocuments : d = opened[1]
  <2>1. 1 \in 1..Len(opened)
    BY <1>1, LenProperties
  <2>2. QED BY <2>1, ElementOfSeq
<1>3. PICK asked : asked = run.asked
  OBVIOUS
<1>4. asked \in Invocation
  BY <1>3 DEF AskedOK
<1>5. CASE asked.command = "merge"
  <2>1. PICK e \in OpenDocuments :
          /\ e = Compacted(Merged(opened), named) /\ e.hidden = {}
          /\ e.pages = FlattenSeq([i \in DOMAIN opened |-> opened[i].pages])
    BY <1>1, MergedDocument
  <2>2. PICK results : results = <<e>>
    OBVIOUS
  <2>3. e.pages = PagesAsked(run, 1)
    BY <1>1, <1>3, <1>5, <2>1 DEF PagesAsked
  <2>4. GivesAsked(run, results)
    BY <1>3, <1>5, <2>1, <2>2, <2>3, OneResult, TargetsAreTexts
  <2>5. Operated(run, named) = SavingNext(run, results)
    BY <1>1, <1>3, <1>5, <2>1, <2>2 DEF Operated, SavingNext
  <2>6. QED BY <2>4, <2>5
<1>6. CASE asked.command = "split"
  <2>1. CASE ~IsBoundary(asked.at, Len(d.pages))
    BY <1>1, <1>2, <1>3, <1>6, <2>1 DEF Operated
  <2>2. CASE IsBoundary(asked.at, Len(d.pages))
    <3>1. asked.at \in Nat
      BY <1>4 DEF Invocation
    <3>2. PICK head \in OpenDocuments, tail \in OpenDocuments :
            /\ head = Compacted(HeadOf(d, asked.at), named)
            /\ tail = Compacted(TailOf(d, asked.at), named)
            /\ head.hidden \subseteq d.hidden \cup ToSet(SubSeq(d.pages, asked.at, Len(d.pages)))
            /\ tail.hidden = {}
            /\ head.pages = SubSeq(d.pages, 1, asked.at - 1)
            /\ tail.pages = SubSeq(d.pages, asked.at, Len(d.pages))
      BY SMTT(30), <2>2, <3>1, SplitDocuments
    <3>3. PICK results : results = <<head, tail>>
      OBVIOUS
    <3>4. head.pages = PagesAsked(run, 1) /\ tail.pages = PagesAsked(run, 2)
      <4>1. \A k \in {1, 2} :
              PagesAsked(run, k) =
                IF k = 1 THEN SubSeq(run.opened[1].pages, 1, run.asked.at - 1)
                ELSE SubSeq(run.opened[1].pages, run.asked.at, Len(run.opened[1].pages))
        BY <1>3, <1>6 DEF PagesAsked
      <4>2. /\ PagesAsked(run, 1) = SubSeq(d.pages, 1, asked.at - 1)
            /\ PagesAsked(run, 2) = SubSeq(d.pages, asked.at, Len(d.pages))
        BY <1>1, <1>2, <1>3, <4>1
      <4>3. QED BY <3>2, <4>2
    <3>5. head.hidden \subseteq Behind(run, 1) /\ tail.hidden \subseteq Behind(run, 2)
      <4>1. Behind(run, 1) = d.hidden \cup ToSet(SubSeq(d.pages, asked.at, Len(d.pages)))
        BY <1>1, <1>2, <1>3, <1>6 DEF Behind
      <4>2. QED BY <3>2, <4>1
    <3>6. GivesAsked(run, results)
      BY <1>3, <1>6, <3>2, <3>3, <3>4, <3>5, TwoResults, TargetsAreTexts
    <3>7. Operated(run, named) = SavingNext(run, results)
      BY <1>1, <1>2, <1>3, <1>6, <2>2, <3>2, <3>3 DEF Operated, SavingNext
    <3>8. QED BY <3>6, <3>7
  <2>3. QED BY <2>1, <2>2
<1>7. CASE asked.command = "rotate"
  <2>1. CASE ~Fits(asked.pages, Len(d.pages))
    BY <1>1, <1>2, <1>3, <1>7, <2>1 DEF Operated
  <2>2. CASE Fits(asked.pages, Len(d.pages))
    <3>1. PICK turns \in 0..3, selection \in Seq(Part) :
            turns = asked.turns /\ selection = asked.pages /\ SelectionOK(selection)
      BY <1>3, <1>4, <1>7 DEF Invocation, AskedOK, SelectionOK
    <3>2. PICK e \in OpenDocuments :
            /\ e = Appended(Rotated(d, Resolved(asked.pages, Len(d.pages)), asked.turns))
            /\ e.hidden = d.hidden
            /\ e.pages =
                 [i \in DOMAIN d.pages |->
                    IF i \in Picked(asked.pages, Len(d.pages))
                    THEN [d.pages[i] EXCEPT !.turns = asked.turns] ELSE d.pages[i]]
      <4>1. PICK e : e = Appended(Rotated(d, Resolved(selection, Len(d.pages)), turns))
        OBVIOUS
      <4>2. Fits(selection, Len(d.pages))
        BY <2>2, <3>1
      <4>3. PagesTurned(d, Picked(selection, Len(d.pages)), turns, e)
        BY <3>1, <4>1, <4>2, RotatedDocument
      <4>4. QED BY <3>1, <4>1, <4>3 DEF PagesTurned
    <3>3. PICK results : results = <<e>>
      OBVIOUS
    <3>4. Chosen(run) = Picked(asked.pages, Len(d.pages))
      BY <1>1, <1>2, <1>3 DEF Chosen, Picked
    <3>5. e.pages = PagesAsked(run, 1)
      BY <1>1, <1>2, <1>3, <1>7, <3>2, <3>4 DEF PagesAsked
    <3>6. e.hidden \subseteq Behind(run, 1)
      BY <1>1, <1>2, <1>3, <1>7, <3>2 DEF Behind
    <3>7. GivesAsked(run, results)
      BY <1>3, <1>7, <3>3, <3>5, <3>6, OneResult, TargetsAreTexts
    <3>8. Operated(run, named) = SavingNext(run, results)
      BY <1>1, <1>2, <1>3, <1>7, <2>2, <3>2, <3>3 DEF Operated, SavingNext
    <3>9. QED BY <3>7, <3>8
  <2>3. QED BY <2>1, <2>2
<1>8. CASE asked.command = "extract"
  <2>1. CASE ~Fits(asked.pages, Len(d.pages))
    BY <1>1, <1>2, <1>3, <1>8, <2>1 DEF Operated
  <2>2. CASE Fits(asked.pages, Len(d.pages))
    <3>1. SelectionOK(asked.pages)
      BY <1>3, <1>8 DEF AskedOK
    <3>2. PICK chosen : chosen = Picked(asked.pages, Len(d.pages))
      OBVIOUS
    <3>3. PICK e \in OpenDocuments :
            /\ e = Compacted(Extracted(d, Resolved(asked.pages, Len(d.pages))), named)
            /\ e.hidden = {}
            /\ e.pages = [i \in 1..Cardinality(chosen) |-> d.pages[Nth(chosen, i)]]
      <4>1. PICK selection : selection = asked.pages /\ SelectionOK(selection)
        BY <3>1
      <4>2. PICK e : e = Compacted(Extracted(d, Resolved(selection, Len(d.pages))), named)
        OBVIOUS
      <4>3. Fits(selection, Len(d.pages)) /\ chosen = Picked(selection, Len(d.pages))
        BY <2>2, <3>2, <4>1
      <4>4. PagesKept(d, chosen, e)
        BY <4>1, <4>2, <4>3, ExtractedDocument
      <4>5. QED BY <4>1, <4>2, <4>4 DEF PagesKept
    <3>4. PICK results : results = <<e>>
      OBVIOUS
    <3>5. Chosen(run) = chosen
      BY <1>1, <1>2, <1>3, <3>2 DEF Chosen, Picked
    <3>6. e.pages = PagesAsked(run, 1)
      BY <1>1, <1>2, <1>3, <1>8, <3>3, <3>5 DEF PagesAsked, Nth
    <3>7. GivesAsked(run, results)
      BY <1>3, <1>8, <3>3, <3>4, <3>6, OneResult, TargetsAreTexts
    <3>8. Operated(run, named) = SavingNext(run, results)
      BY <1>1, <1>2, <1>3, <1>8, <2>2, <3>3, <3>4 DEF Operated, SavingNext
    <3>9. QED BY <3>7, <3>8
  <2>3. QED BY <2>1, <2>2
<1>9. QED BY <1>3, <1>5, <1>6, <1>7, <1>8 DEF Working

-----------------------------------------------------------------------------
\* The invariant of what is asked: each run carries an invocation that its line
\* asked for, then the documents it opened, then results that are what was
\* asked, and what it has written of them stands on disk.

Stage == {"idle", "entered", "guarding", "opening", "operating", "saving", "writing", "ended"}

RunTyped(run) ==
  /\ DOMAIN run = DOMAIN Idle
  /\ run.at \in Stage
  /\ run.argv \in Seq(Text) /\ AskedOK(run.asked)
  /\ run.outcome \in Outcome
  /\ run.at = "ended" <=> run.outcome # "none"
  /\ run.opened \in Seq(OpenDocuments) /\ run.results \in Seq(OpenDocuments)
  /\ run.written \in Nat /\ run.written <= Len(run.results)

\* The runs that have written results: all those up to the last one written.
Delivering(run) ==
  \/ run.at \in {"saving", "writing"}
  \/ run.outcome = "success" /\ run.asked.command \in Working

RunStaged(run) ==
  /\ run.at \in {"idle", "entered", "guarding"} => run.opened = << >>
  /\ run.at \in {"idle", "entered", "guarding", "opening", "operating"} => run.written = 0
  /\ run.at \in Stage \ {"idle", "entered", "ended"} => run.asked.command \in Working
  /\ run.at = "opening" => Len(run.opened) < Len(run.asked.inputs)
  /\ run.at = "operating" => Len(run.opened) = Len(run.asked.inputs)
  /\ Delivering(run) =>
       /\ GivesAsked(run, run.results)
       /\ run.written < Len(run.results) <=> run.at # "ended"

\* What a run has written is there, if its bytes alone are in the file and no
\* other output of it is.
OnlyTarget(asked, k) ==
  \A j \in DOMAIN Targets(asked) :
    FileOf[Targets(asked)[j]] = FileOf[Targets(asked)[k]] => j = k
Delivered(p, run, contents, writers) ==
  Delivering(run) =>
    \A k \in 1..run.written :
      LET f == FileOf[Targets(run.asked)[k]]
      IN  writers[f] = p /\ OnlyTarget(run.asked, k) => contents[f] = run.results[k]

FilesTyped ==
  /\ disk \in [File -> Contents] /\ original \in [File -> Contents]
  /\ \A f \in File : disk[f].state = "pdf" => disk[f] \in OpenDocuments
  /\ sanctioned \subseteq File
  /\ writer \in [File -> Process \cup {Nobody}]

AskedInvariant ==
  /\ FilesTyped
  /\ DOMAIN process = Process
  /\ \A p \in Process :
       /\ RunTyped(process[p]) /\ RunStaged(process[p])
       /\ Delivered(p, process[p], disk, writer)

LEMMA AskedAlike ==
  ASSUME NEW run, NEW next, next.asked = run.asked, next.opened = run.opened,
         NEW results, GivesAsked(run, results)
  PROVE  GivesAsked(next, results)
<1>1. Chosen(next) = Chosen(run)
  BY DEF Chosen
<1>2. ASSUME NEW k
      PROVE  PagesAsked(next, k) = PagesAsked(run, k) /\ Behind(next, k) = Behind(run, k)
  BY <1>1 DEF PagesAsked, Behind
<1>3. QED BY <1>2 DEF GivesAsked

LEMMA OutputsAreFiles ==
  ASSUME NEW run, RunTyped(run), RunStaged(run), Delivering(run),
         NEW k \in 1..Len(run.results)
  PROVE  k \in DOMAIN Targets(run.asked) /\ FileOf[Targets(run.asked)[k]] \in File
<1>1. AskedOK(run.asked) /\ GivesAsked(run, run.results)
  BY DEF RunTyped, RunStaged
<1>2. PICK targets \in Seq(Text) : targets = Targets(run.asked)
  BY <1>1, TargetsAreTexts
<1>3. Len(targets) = Len(run.results)
  BY <1>1, <1>2 DEF GivesAsked
<1>4. k \in 1..Len(targets) /\ 1..Len(targets) = DOMAIN targets
  BY <1>2, <1>3, LenProperties
<1>5. targets[k] \in Text
  BY <1>4, ElementOfSeq
<1>6. QED BY <1>2, <1>4, <1>5, CommandLineAssumption

\* What one process does leaves the others' results standing: a file it writes
\* to is no longer theirs alone.
LEMMA OneMoves ==
  ASSUME AskedInvariant, NEW p \in Process, NEW next,
         process' = [process EXCEPT ![p] = next],
         FilesTyped', RunTyped(next), RunStaged(next), Delivered(p, next, disk', writer'),
         \A f \in File :
           \/ disk'[f] = disk[f] /\ writer'[f] = writer[f]
           \/ writer'[f] \in {p, Nobody}
  PROVE  AskedInvariant'
<1>1. DOMAIN process = Process /\ DOMAIN process' = Process /\ process'[p] = next
  BY DEF AskedInvariant
<1>2. ASSUME NEW q \in Process
      PROVE  /\ RunTyped(process[q])' /\ RunStaged(process[q])'
             /\ Delivered(q, process[q], disk, writer)'
  <2>1. CASE q = p
    BY <1>1, <2>1
  <2>2. CASE q # p
    <3>run. PICK run : run = process[q]
      OBVIOUS
    <3>1. process'[q] = run
      BY <1>1, <2>2, <3>run
    <3>2. RunTyped(run) /\ RunStaged(run) /\ Delivered(q, run, disk, writer)
      BY <3>run DEF AskedInvariant
    <3>3. ASSUME Delivering(run), NEW k \in 1..run.written, NEW f,
                 f = FileOf[Targets(run.asked)[k]], writer'[f] = q, OnlyTarget(run.asked, k)
          PROVE  disk'[f] = run.results[k]
      <4>1. PICK written \in Nat, n \in Nat :
              written = run.written /\ n = Len(run.results) /\ written <= n
        BY <3>2, LenProperties DEF RunTyped
      <4>2. k \in 1..n
        BY <3>3, <4>1
      <4>3. f \in File
        BY <3>2, <3>3, <4>1, <4>2, OutputsAreFiles
      <4>4. q \notin {p, Nobody}
        BY <2>2, CommandLineAssumption
      <4>5. disk'[f] = disk[f] /\ writer[f] = q
        BY <3>3, <4>3, <4>4
      <4>6. QED BY <3>2, <3>3, <4>5 DEF Delivered
    <3>4. Delivered(q, run, disk', writer')
      BY <3>3 DEF Delivered
    <3>5. QED BY <3>1, <3>2, <3>4
  <2>3. QED BY <2>1, <2>2
<1>3. QED BY <1>1, <1>2 DEF AskedInvariant

\* A step that writes to no file, of a run that has not written yet or is over
\* without success.
LEMMA QuietMove ==
  ASSUME AskedInvariant, NEW p \in Process, NEW next,
         process' = [process EXCEPT ![p] = next],
         disk' = disk, original' = original, writer' = writer, sanctioned' \subseteq File,
         RunTyped(next), RunStaged(next), Delivering(next) => next.written = 0
  PROVE  AskedInvariant'
<1>1. FilesTyped'
  BY DEF AskedInvariant, FilesTyped
<1>2. Delivered(p, next, disk', writer')
  BY DEF Delivered
<1>3. QED BY <1>1, <1>2, OneMoves

LEMMA EndingMove ==
  ASSUME AskedInvariant, NEW p \in Process, NEW outcome \in Outcome \ {"none", "success"},
         process' = [process EXCEPT ![p] = Ended(process[p], outcome)],
         disk' = disk, original' = original, writer' = writer, sanctioned' = sanctioned
  PROVE  AskedInvariant'
<1>run. PICK run : run = process[p]
  OBVIOUS
<1>next. PICK next : next = Ended(run, outcome)
  OBVIOUS
<1>1. RunTyped(run)
  BY <1>run DEF AskedInvariant
<1>2. /\ DOMAIN next = DOMAIN run /\ next.at = "ended" /\ next.outcome = outcome
      /\ next.argv = run.argv /\ next.asked = run.asked /\ next.opened = run.opened
      /\ next.results = run.results /\ next.written = run.written
  BY <1>1, <1>next DEF Ended, RunTyped, Idle
<1>3. RunTyped(next)
  BY <1>1, <1>2 DEF RunTyped, Stage
<1>4. ~Delivering(next) /\ RunStaged(next)
  BY <1>2 DEF Delivering, RunStaged
<1>5. sanctioned' \subseteq File
  BY DEF AskedInvariant, FilesTyped
<1>6. QED BY <1>run, <1>next, <1>3, <1>4, <1>5, QuietMove
LEMMA AskedInitially == Init => AskedInvariant
<1> SUFFICES ASSUME Init PROVE AskedInvariant
  OBVIOUS
<1>1. FilesTyped
  <2>1. original \in Originals /\ original \in [File -> Contents] /\ disk = original
    BY CommandLineAssumption DEF Init
  <2>2. \A f \in File : disk[f].state = "pdf" => disk[f] \in OpenDocuments
    BY <2>1, CommandLineAssumption DEF OpenDocuments
  <2>3. sanctioned = {} /\ writer \in [File -> Process \cup {Nobody}]
    BY DEF Init
  <2>4. QED BY <2>1, <2>2, <2>3 DEF FilesTyped
<1>2. DOMAIN process = Process /\ \A p \in Process : process[p] = Idle
  BY DEF Init
<1>3. RunTyped(Idle)
  <2>1. AskedOK(Misuse)
    BY PlainIsAsked DEF Misuse
  <2>2. QED BY <2>1 DEF RunTyped, Idle, Stage, Outcome
<1>4. ~Delivering(Idle) /\ RunStaged(Idle)
  BY DEF Delivering, RunStaged, Idle
<1>5. QED BY <1>1, <1>2, <1>3, <1>4 DEF AskedInvariant, Delivered

LEMMA StartingMoves ==
  ASSUME AskedInvariant, NEW p \in Process, Enter(p) \/ Return(p)
  PROVE  AskedInvariant'
<1>1. PICK next : \E argv \in Seq(Text), at \in {"idle", "entered"} :
        /\ process' = [process EXCEPT ![p] = next]
        /\ DOMAIN next = DOMAIN Idle /\ next.at = at /\ next.argv = argv
        /\ next.asked = Misuse /\ next.outcome = "none" /\ next.opened = << >>
        /\ next.results = << >> /\ next.written = 0
  <2>1. CASE Enter(p)
    <3>1. PICK argv \in LinesOf[p] :
            process' = [process EXCEPT ![p] =
              [Idle EXCEPT !.at = "entered", !.argv = argv, !.runs = process[p].runs + 1]]
      BY <2>1 DEF Enter
    <3>2. PICK next :
            next = [Idle EXCEPT !.at = "entered", !.argv = argv, !.runs = process[p].runs + 1]
      OBVIOUS
    <3>3. argv \in Seq(Text)
      BY CommandLineAssumption
    <3>4. /\ DOMAIN next = DOMAIN Idle /\ next.at = "entered" /\ next.argv = argv
          /\ next.asked = Misuse /\ next.outcome = "none" /\ next.opened = << >>
          /\ next.results = << >> /\ next.written = 0
      BY <3>2 DEF Idle
    <3>5. process' = [process EXCEPT ![p] = next]
      BY <3>1, <3>2
    <3>6. QED BY <3>3, <3>4, <3>5
  <2>2. CASE Return(p)
    <3>1. PICK next : next = [Idle EXCEPT !.runs = process[p].runs]
      OBVIOUS
    <3>2. process' = [process EXCEPT ![p] = next]
      BY <2>2, <3>1 DEF Return
    <3>3. << >> \in Seq(Text)
      OBVIOUS
    <3>4. /\ DOMAIN next = DOMAIN Idle /\ next.at = "idle" /\ next.argv = << >>
          /\ next.asked = Misuse /\ next.outcome = "none" /\ next.opened = << >>
          /\ next.results = << >> /\ next.written = 0
      BY <3>1 DEF Idle
    <3>5. QED BY <3>2, <3>3, <3>4
  <2>3. QED BY <2>1, <2>2
<1>2. PICK argv \in Seq(Text), at \in {"idle", "entered"} :
        /\ process' = [process EXCEPT ![p] = next]
        /\ DOMAIN next = DOMAIN Idle /\ next.at = at /\ next.argv = argv
        /\ next.asked = Misuse /\ next.outcome = "none" /\ next.opened = << >>
        /\ next.results = << >> /\ next.written = 0
  BY <1>1
<1>3. disk' = disk /\ original' = original /\ writer' = writer /\ sanctioned' = sanctioned
  BY DEF Enter, Return
<1>4. RunTyped(next)
  <2>1. AskedOK(Misuse)
    BY PlainIsAsked DEF Misuse
  <2>2. << >> \in Seq(OpenDocuments) /\ Len(<< >>) = 0
    OBVIOUS
  <2>3. QED BY <1>2, <2>1, <2>2 DEF RunTyped, Stage, Outcome
<1>5. ~Delivering(next) /\ RunStaged(next)
  BY <1>2 DEF Delivering, RunStaged
<1>6. sanctioned' \subseteq File
  BY <1>3 DEF AskedInvariant, FilesTyped
<1>7. QED BY <1>2, <1>3, <1>4, <1>5, <1>6, QuietMove

LEMMA DispatchMove ==
  ASSUME AskedInvariant, NEW p \in Process, Dispatch(p)
  PROVE  AskedInvariant'
<1>run. PICK run : run = process[p]
  OBVIOUS
<1>1. run.at = "entered" /\ RunTyped(run) /\ RunStaged(run)
  BY <1>run DEF AskedInvariant, Dispatch
<1>asked. PICK asked : asked = Parsed(run.argv)
  OBVIOUS
<1>2. AskedOK(asked) /\ asked.command \in Commands
  BY <1>1, <1>asked, ParsedIsAsked, ParsedIsShaped DEF RunTyped
<1>left. PICK left : left = [run EXCEPT !.argv = << >>, !.asked = asked]
  OBVIOUS
<1>3. /\ DOMAIN left = DOMAIN Idle /\ left.at = "entered" /\ left.argv = << >>
      /\ left.asked = asked /\ left.outcome = "none" /\ left.opened = << >>
      /\ left.results \in Seq(OpenDocuments) /\ left.written = 0
  BY <1>1, <1>left DEF RunTyped, RunStaged, Idle
<1>next. PICK next : next = Dispatched(left, asked)
  OBVIOUS
<1>4. process' = [process EXCEPT ![p] = next]
  BY <1>run, <1>asked, <1>left, <1>next DEF Dispatch
<1>5. /\ DOMAIN next = DOMAIN Idle /\ next.argv = << >> /\ next.asked = asked
      /\ next.opened = << >> /\ next.results = left.results /\ next.written = 0
      /\ \/ next.at = "ended" /\ next.outcome = "success" /\ asked.command \notin Working
         \/ next.at = "ended" /\ next.outcome = "misuse"
         \/ /\ next.at \in {"opening", "guarding"} /\ next.outcome = "none"
            /\ asked.command \in Working
  <2>1. CASE asked.command \in {"help", "version"}
    <3>1. next = Ended(left, "success")
      BY <1>next, <2>1 DEF Dispatched, SameOutput
    <3>2. QED BY <1>3, <2>1, <3>1 DEF Ended, Idle, Working
  <2>2. CASE asked.command = "misuse" \/ SameOutput(asked)
    <3>1. next = Ended(left, "misuse")
      BY <1>next, <2>2 DEF Dispatched, SameOutput
    <3>2. QED BY <1>3, <3>1 DEF Ended, Idle
  <2>3. CASE ~(asked.command \in {"help", "version", "misuse"} \/ SameOutput(asked))
    <3>1. PICK at \in {"opening", "guarding"} : next = [left EXCEPT !.at = at]
      BY <1>next, <2>3 DEF Dispatched
    <3>2. asked.command \in Working
      BY <1>2, <2>3 DEF Commands
    <3>3. QED BY <1>3, <3>1, <3>2 DEF Idle
  <2>4. QED BY <2>1, <2>2, <2>3
<1>6. RunTyped(next)
  <2>1. next.written <= Len(next.results)
    BY <1>3, <1>5, LenProperties
  <2>2. << >> \in Seq(Text) /\ << >> \in Seq(OpenDocuments)
    OBVIOUS
  <2>3. QED BY <1>2, <1>3, <1>5, <2>1, <2>2 DEF RunTyped, Stage, Outcome
<1>7. ~Delivering(next) /\ RunStaged(next)
  <2>1. ~Delivering(next)
    BY <1>5 DEF Delivering
  <2>2. PICK n \in Nat : n = Len(asked.inputs)
    BY <1>2, LenProperties DEF AskedOK, Invocation
  <2>3. asked.command \in Working => Len(<< >>) < Len(asked.inputs)
    <3>1. CASE asked.command = "merge"
      <4>1. n >= 1
        BY <1>2, <2>2, <3>1 DEF AskedOK
      <4>2. QED BY <2>2, <4>1
    <3>2. CASE asked.command \in {"split", "rotate", "extract"}
      <4>1. n = 1
        BY <1>2, <2>2, <3>2 DEF AskedOK
      <4>2. QED BY <2>2, <4>1
    <3>3. QED BY <3>1, <3>2 DEF Working
  <2>4. QED BY <1>5, <2>1, <2>3 DEF RunStaged, Stage
<1>8. sanctioned' \subseteq File
  <2>1. sanctioned \subseteq File
    BY DEF AskedInvariant, FilesTyped
  <2>2. PICK targets \in Seq(Text) : targets = Targets(asked)
    BY <1>2, TargetsAreTexts
  <2>3. ASSUME NEW t \in ToSet(targets) PROVE FileOf[t] \in File
    <3>1. PICK i \in DOMAIN targets : t = targets[i]
      BY DEF ToSet
    <3>2. t \in Text
      BY <3>1, LenProperties, ElementOfSeq
    <3>3. QED BY <3>2, CommandLineAssumption
  <2>4. sanctioned' \subseteq sanctioned \cup {FileOf[t] : t \in ToSet(targets)}
    BY <1>run, <1>asked, <2>2 DEF Dispatch
  <2>5. QED BY <2>1, <2>3, <2>4
<1>9. disk' = disk /\ original' = original /\ writer' = writer
  BY DEF Dispatch
<1>10. QED BY <1>4, <1>6, <1>7, <1>8, <1>9, QuietMove
LEMMA GuardMove ==
  ASSUME AskedInvariant, NEW p \in Process, Guard(p)
  PROVE  AskedInvariant'
<1>run. PICK run : run = process[p]
  OBVIOUS
<1>1. run.at = "guarding" /\ RunTyped(run) /\ RunStaged(run)
  BY <1>run DEF AskedInvariant, Guard
<1>2. disk' = disk /\ original' = original /\ writer' = writer /\ sanctioned' = sanctioned
  BY DEF Guard
<1>3. CASE ~run.asked.force /\ disk[NextOutput(run)] # Missing
  <2>1. process' = [process EXCEPT ![p] = Ended(process[p], "exists")]
    BY <1>run, <1>3 DEF Guard
  <2>2. QED BY <1>2, <2>1, EndingMove DEF Outcome
<1>4. CASE ~(~run.asked.force /\ disk[NextOutput(run)] # Missing)
  <2>next. PICK next :
         next = [run EXCEPT
                   !.guarded = @ + 1,
                   !.at = IF run.guarded + 1 = Len(run.asked.outputs)
                          THEN "opening" ELSE "guarding"]
    OBVIOUS
  <2>1. process' = [process EXCEPT ![p] = next]
    BY <1>run, <1>4, <2>next DEF Guard
  <2>2. /\ DOMAIN next = DOMAIN run /\ next.at \in {"opening", "guarding"}
        /\ next.argv = run.argv /\ next.asked = run.asked /\ next.outcome = run.outcome
        /\ next.opened = run.opened /\ next.results = run.results
        /\ next.written = run.written
    BY <1>1, <2>next DEF RunTyped, Idle
  <2>3. RunTyped(next)
    BY <1>1, <2>2 DEF RunTyped, Stage
  <2>4. Len(run.opened) < Len(run.asked.inputs)
    <3>1. PICK n \in Nat : n = Len(run.asked.inputs)
      BY <1>1, LenProperties DEF RunTyped, AskedOK, Invocation
    <3>2. AskedOK(run.asked) /\ run.asked.command \in Working /\ run.opened = << >>
      BY <1>1 DEF RunTyped, RunStaged, Stage
    <3>3. CASE run.asked.command = "merge"
      <4>1. n >= 1
        BY <3>1, <3>2, <3>3 DEF AskedOK
      <4>2. QED BY <3>1, <3>2, <4>1
    <3>4. CASE run.asked.command \in {"split", "rotate", "extract"}
      <4>1. n = 1
        BY <3>1, <3>2, <3>4 DEF AskedOK
      <4>2. QED BY <3>1, <3>2, <4>1
    <3>5. QED BY <3>2, <3>3, <3>4 DEF Working
  <2>5. ~Delivering(next) /\ RunStaged(next)
    BY <1>1, <2>2, <2>4 DEF Delivering, RunStaged, RunTyped, Stage
  <2>6. sanctioned' \subseteq File
    BY <1>2 DEF AskedInvariant, FilesTyped
  <2>7. QED BY <1>2, <2>1, <2>3, <2>5, <2>6, QuietMove
<1>5. QED BY <1>3, <1>4

LEMMA OpenMove ==
  ASSUME AskedInvariant, NEW p \in Process, Open(p)
  PROVE  AskedInvariant'
<1>run. PICK run : run = process[p]
  OBVIOUS
<1>1. run.at = "opening" /\ RunTyped(run) /\ RunStaged(run)
  BY SMTT(30), <1>run DEF AskedInvariant, Open
<1>2. disk' = disk /\ original' = original /\ writer' = writer /\ sanctioned' = sanctioned
  BY DEF Open
<1>inputs. PICK inputs \in Seq(Text), opened \in Seq(OpenDocuments), n \in Nat, m \in Nat :
         /\ inputs = run.asked.inputs /\ opened = run.opened
         /\ n = Len(inputs) /\ m = Len(opened) /\ m < n
  BY <1>1, LenProperties DEF RunTyped, RunStaged, AskedOK, Invocation
<1>found. PICK found : found = disk[FileOf[inputs[m + 1]]]
  OBVIOUS
<1>3. CASE found.state # "pdf"
  <2>1. process' = [process EXCEPT ![p] = Ended(process[p], "open")]
    BY <1>3, <1>run, <1>inputs, <1>found DEF Open
  <2>2. QED BY <1>2, <2>1, EndingMove DEF Outcome
<1>4. CASE found.state = "pdf"
  <2>1. found \in OpenDocuments
    <3>1. m + 1 \in 1..Len(inputs)
      BY <1>inputs
    <3>2. inputs[m + 1] \in Text
      BY <3>1, ElementOfSeq
    <3>3. FileOf[inputs[m + 1]] \in File
      BY <3>2, CommandLineAssumption
    <3>4. QED BY <1>4, <1>found, <3>3 DEF AskedInvariant, FilesTyped
  <2>more. PICK more : more = Append(opened, found)
    OBVIOUS
  <2>2. more \in Seq(OpenDocuments) /\ Len(more) = m + 1
    BY <1>inputs, <2>1, <2>more, AppendProperties
  <2>next. PICK next :
         next = [run EXCEPT !.opened = more,
                            !.at = IF m + 1 = n THEN "operating" ELSE "opening"]
    OBVIOUS
  <2>3. process' = [process EXCEPT ![p] = next]
    BY <1>4, <1>run, <1>inputs, <1>found, <2>more, <2>next DEF Open
  <2>4. /\ DOMAIN next = DOMAIN run /\ next.argv = run.argv /\ next.asked = run.asked
        /\ next.at = (IF m + 1 = n THEN "operating" ELSE "opening")
        /\ next.outcome = run.outcome /\ next.opened = more /\ next.results = run.results
        /\ next.written = run.written
    BY <1>1, <2>next DEF RunTyped, Idle
  <2>5. RunTyped(next)
    BY <1>1, <2>2, <2>4 DEF RunTyped, Stage
  <2>6. CASE m + 1 = n
    <3>1. next.at = "operating" /\ Len(next.opened) = Len(next.asked.inputs)
      BY <1>inputs, <2>2, <2>4, <2>6
    <3>2. ~Delivering(next) /\ RunStaged(next)
      BY <1>1, <2>4, <3>1 DEF Delivering, RunStaged, RunTyped, Stage
    <3>3. QED BY <1>2, <2>3, <2>5, <3>2, QuietMove DEF AskedInvariant, FilesTyped
  <2>7. CASE m + 1 # n
    <3>1. next.at = "opening" /\ Len(next.opened) < Len(next.asked.inputs)
      BY <1>inputs, <2>2, <2>4, <2>7
    <3>2. ~Delivering(next) /\ RunStaged(next)
      BY <1>1, <2>4, <3>1 DEF Delivering, RunStaged, RunTyped, Stage
    <3>3. QED BY <1>2, <2>3, <2>5, <3>2, QuietMove DEF AskedInvariant, FilesTyped
  <2>8. QED BY <2>6, <2>7
<1>5. QED BY SMTT(30), <1>3, <1>4

LEMMA OperateMove ==
  ASSUME AskedInvariant, NEW p \in Process, Operate(p)
  PROVE  AskedInvariant'
<1>run. PICK run : run = process[p]
  OBVIOUS
<1>1. run.at = "operating" /\ RunTyped(run) /\ RunStaged(run)
  BY <1>run DEF AskedInvariant, Operate
<1>2. disk' = disk /\ original' = original /\ writer' = writer /\ sanctioned' = sanctioned
  BY DEF Operate
<1>3. PICK named : process' = [process EXCEPT ![p] = Operated(run, named)]
  BY <1>run DEF Operate
<1>4. /\ AskedOK(run.asked) /\ run.asked.command \in Working
      /\ run.opened \in Seq(OpenDocuments) /\ Len(run.opened) = Len(run.asked.inputs)
  BY <1>1 DEF RunTyped, RunStaged, Stage
<1>5. ASSUME NEW outcome \in {"misuse", "operation"}, Operated(run, named) = Ended(run, outcome)
      PROVE  AskedInvariant'
  BY <1>run, <1>2, <1>3, <1>5, EndingMove DEF Outcome
<1>6. ASSUME NEW results, GivesAsked(run, results), Operated(run, named) = SavingNext(run, results)
      PROVE  AskedInvariant'
  <2>next. PICK next : next = SavingNext(run, results)
    OBVIOUS
  <2>1. /\ DOMAIN next = DOMAIN run /\ next.at = "saving" /\ next.argv = run.argv
        /\ next.asked = run.asked /\ next.outcome = run.outcome
        /\ next.opened = run.opened /\ next.results = results
        /\ next.written = 0
    BY <1>1, <2>next DEF RunTyped, RunStaged, Idle, SavingNext
  <2>2. results \in Seq(OpenDocuments) /\ Len(results) \in Nat /\ 0 < Len(results)
    BY <1>6, LenProperties DEF GivesAsked
  <2>3. RunTyped(next)
    BY <1>1, <2>1, <2>2 DEF RunTyped, Stage
  <2>4. GivesAsked(next, results)
    BY <1>6, <2>1, AskedAlike
  <2>5. RunStaged(next)
    BY <1>4, <2>1, <2>2, <2>4 DEF RunStaged, Stage
  <2>6. process' = [process EXCEPT ![p] = next]
    BY <1>3, <1>6, <2>next
  <2>7. QED BY <1>2, <2>1, <2>3, <2>5, <2>6, QuietMove DEF AskedInvariant, FilesTyped
<1>7. QED BY <1>4, <1>5, <1>6, OperatedIsAsked
LEMMA DamagedFile == Damaged \in Contents /\ Damaged.state # "pdf"
<1>1. PICK none \in Seq(Page) : none = << >>
  BY EmptySeq
<1>2. QED BY <1>1 DEF Damaged, Contents

\* What may be in a file, the step that writes it there, and the other files.
Sound(found) == found \in Contents /\ (found.state = "pdf" => found \in OpenDocuments)
FileBecomes(f, found, w) ==
  /\ disk' = [disk EXCEPT ![f] = found] /\ writer' = [writer EXCEPT ![f] = w]
  /\ original' = original /\ sanctioned' = sanctioned
OthersStand(f) ==
  \A g \in File : g # f => disk'[g] = disk[g] /\ writer'[g] = writer[g]

LEMMA FileIsWritten ==
  ASSUME FilesTyped, NEW f \in File, NEW found, Sound(found),
         NEW w \in Process \cup {Nobody}, FileBecomes(f, found, w)
  PROVE  FilesTyped' /\ disk'[f] = found /\ writer'[f] = w /\ OthersStand(f)
<1>1. /\ disk \in [File -> Contents] /\ writer \in [File -> Process \cup {Nobody}]
      /\ original \in [File -> Contents] /\ sanctioned \subseteq File
      /\ \A g \in File : disk[g].state = "pdf" => disk[g] \in OpenDocuments
  BY DEF FilesTyped
<1>2. /\ disk' \in [File -> Contents] /\ writer' \in [File -> Process \cup {Nobody}]
      /\ disk'[f] = found /\ writer'[f] = w
      /\ \A g \in File : g # f => disk'[g] = disk[g] /\ writer'[g] = writer[g]
  BY <1>1 DEF Sound, FileBecomes
<1>3. \A g \in File : disk'[g].state = "pdf" => disk'[g] \in OpenDocuments
  BY <1>1, <1>2 DEF Sound
<1>4. original' = original /\ sanctioned' = sanctioned
  BY DEF FileBecomes
<1>5. QED BY <1>1, <1>2, <1>3, <1>4 DEF FilesTyped, OthersStand

\* The file at hand, and the ones before it.
LEMMA FileAtHand ==
  ASSUME NEW run, RunTyped(run), RunStaged(run), run.at \in {"saving", "writing"}
  PROVE  /\ run.written \in Nat /\ run.written + 1 \in 1..Len(run.results)
         /\ Target(run) \in File
<1>1. Delivering(run)
  BY DEF Delivering
<1>2. PICK written \in Nat, n \in Nat :
        written = run.written /\ n = Len(run.results) /\ written < n
  BY <1>1, LenProperties DEF RunTyped, RunStaged
<1>3. written + 1 \in 1..n
  BY <1>2
<1>4. QED BY <1>1, <1>2, <1>3, OutputsAreFiles DEF Target

LEMMA EarlierStand ==
  ASSUME NEW p \in Process, NEW run, RunTyped(run), RunStaged(run),
         run.at \in {"saving", "writing"}, Delivered(p, run, disk, writer),
         NEW at, at = Target(run), OthersStand(at),
         NEW k \in 1..run.written, NEW f, f = FileOf[Targets(run.asked)[k]],
         writer'[f] = p, OnlyTarget(run.asked, k)
  PROVE  disk'[f] = run.results[k]
<1>1. Delivering(run)
  BY DEF Delivering
<1>2. PICK written \in Nat, n \in Nat :
        written = run.written /\ n = Len(run.results) /\ written + 1 \in 1..n
  BY FileAtHand, LenProperties DEF RunTyped
<1>3. k \in 1..n /\ k # written + 1
  BY <1>2
<1>4. f \in File /\ written + 1 \in DOMAIN Targets(run.asked)
  BY <1>1, <1>2, <1>3, OutputsAreFiles
<1>5. f # Target(run)
  BY <1>2, <1>3, <1>4 DEF OnlyTarget, Target
<1>6. disk'[f] = disk[f] /\ writer[f] = p
  BY <1>4, <1>5 DEF OthersStand
<1>7. QED BY <1>1, <1>6 DEF Delivered

LEMMA StartWritingMove ==
  ASSUME AskedInvariant, NEW p \in Process, StartWriting(p)
  PROVE  AskedInvariant'
<1>run. PICK run : run = process[p]
  OBVIOUS
<1>1. /\ run.at = "saving" /\ RunTyped(run) /\ RunStaged(run)
      /\ Delivered(p, run, disk, writer)
  BY <1>run DEF AskedInvariant, StartWriting
<1>f. PICK f \in File : f = Target(run)
  BY <1>1, FileAtHand
<1>next. PICK next : next = [run EXCEPT !.at = "writing", !.touched = TRUE]
  OBVIOUS
<1>2. /\ process' = [process EXCEPT ![p] = next]
      /\ disk' = [disk EXCEPT ![f] = Damaged] /\ writer' = [writer EXCEPT ![f] = p]
      /\ original' = original /\ sanctioned' = sanctioned
  BY <1>run, <1>f, <1>next DEF StartWriting
<1>3. /\ DOMAIN next = DOMAIN run /\ next.at = "writing" /\ next.argv = run.argv
      /\ next.asked = run.asked /\ next.outcome = run.outcome
      /\ next.opened = run.opened /\ next.results = run.results
      /\ next.written = run.written
  BY <1>1, <1>next DEF RunTyped, Idle
<1>4. RunTyped(next)
  BY <1>1, <1>3 DEF RunTyped, Stage
<1>5. Delivering(run) /\ Delivering(next)
  BY <1>1, <1>3 DEF Delivering
<1>6. RunStaged(next)
  <2>1. GivesAsked(next, run.results)
    BY <1>1, <1>3, <1>5, AskedAlike DEF RunStaged
  <2>2. QED BY <1>1, <1>3, <1>5, <2>1 DEF RunStaged, Stage
<1>7. FilesTyped' /\ writer'[f] = p /\ OthersStand(f)
  <2>found. PICK found : found = Damaged
    OBVIOUS
  <2>1. FilesTyped /\ p \in Process \cup {Nobody}
    BY DEF AskedInvariant
  <2>2. Sound(found)
    BY <2>found, DamagedFile DEF Sound
  <2>3. FileBecomes(f, found, p)
    BY <1>2, <2>found DEF FileBecomes
  <2>4. QED BY <2>1, <2>2, <2>3, FileIsWritten
<1>8. Delivered(p, next, disk', writer')
  <2>1. ASSUME NEW k \in 1..run.written, NEW g, g = FileOf[Targets(run.asked)[k]],
               writer'[g] = p, OnlyTarget(run.asked, k)
        PROVE  disk'[g] = run.results[k]
    BY <1>1, <1>f, <1>7, <2>1, EarlierStand
  <2>2. QED BY <1>3, <2>1 DEF Delivered
<1>9. QED BY <1>2, <1>4, <1>6, <1>7, <1>8, OneMoves DEF OthersStand

LEMMA FinishWritingMove ==
  ASSUME AskedInvariant, NEW p \in Process, FinishWriting(p)
  PROVE  AskedInvariant'
<1>run. PICK run : run = process[p]
  OBVIOUS
<1>1. /\ run.at = "writing" /\ RunTyped(run) /\ RunStaged(run)
      /\ Delivered(p, run, disk, writer)
  BY <1>run DEF AskedInvariant, FinishWriting
<1>f. PICK f \in File : f = Target(run)
  BY <1>1, FileAtHand
<1>2. PICK written \in Nat, n \in Nat :
        written = run.written /\ n = Len(run.results) /\ written + 1 \in 1..n
  BY <1>1, FileAtHand, LenProperties DEF RunTyped
<1>3. Delivering(run) /\ GivesAsked(run, run.results)
  BY <1>1 DEF Delivering, RunStaged
<1>result. PICK result \in OpenDocuments : result = run.results[written + 1]
  BY <1>1, <1>2, ElementOfSeq DEF RunTyped
<1>w. PICK w \in {p, Nobody} : w = IF Shared(p, f) THEN Nobody ELSE p
  OBVIOUS
<1>next. PICK next :
         next = IF written + 1 < n THEN [run EXCEPT !.written = written + 1, !.at = "saving"]
                ELSE Ended([run EXCEPT !.written = written + 1], "success")
  OBVIOUS
<1>4. /\ process' = [process EXCEPT ![p] = next]
      /\ writer' = [writer EXCEPT ![f] = w]
      /\ original' = original /\ sanctioned' = sanctioned
  BY <1>run, <1>f, <1>2, <1>w, <1>next DEF FinishWriting
<1>found. PICK found \in {result} \cup (IF Shared(p, f) THEN {Damaged} ELSE {}) :
            disk' = [disk EXCEPT ![f] = found]
  BY <1>run, <1>f, <1>2, <1>result DEF FinishWriting
<1>5. /\ DOMAIN next = DOMAIN run /\ next.argv = run.argv /\ next.asked = run.asked
      /\ next.opened = run.opened /\ next.results = run.results
      /\ next.written = written + 1
      /\ \/ written + 1 < n /\ next.at = "saving" /\ next.outcome = run.outcome
         \/ ~(written + 1 < n) /\ next.at = "ended" /\ next.outcome = "success"
  BY <1>1, <1>next DEF RunTyped, Idle, Ended
<1>6. RunTyped(next)
  <2>1. written + 1 \in Nat /\ written + 1 <= n
    BY <1>2
  <2>2. CASE written + 1 < n
    BY <1>1, <1>2, <1>5, <2>1, <2>2 DEF RunTyped, Stage
  <2>3. CASE ~(written + 1 < n)
    BY <1>1, <1>2, <1>5, <2>1, <2>3 DEF RunTyped, Stage, Outcome
  <2>4. QED BY <2>2, <2>3
<1>7. run.asked.command \in Working
  BY <1>1 DEF RunStaged, Stage
<1>8. RunStaged(next)
  <2>1. GivesAsked(next, run.results)
    BY <1>3, <1>5, AskedAlike
  <2>2. CASE written + 1 < n
    BY <1>2, <1>5, <1>7, <2>1, <2>2 DEF RunStaged, Stage
  <2>3. CASE ~(written + 1 < n)
    BY <1>2, <1>5, <1>7, <2>1, <2>3 DEF RunStaged, Stage
  <2>4. QED BY <2>2, <2>3
<1>9. /\ found \in Contents
      /\ found.state = "pdf" => found \in OpenDocuments
      /\ ~Shared(p, f) => found = result
  <2>1. found = result \/ (Shared(p, f) /\ found = Damaged)
    BY <1>found
  <2>2. result \in Contents
    BY DEF OpenDocuments
  <2>3. CASE found = result
    BY <2>2, <2>3
  <2>4. CASE Shared(p, f) /\ found = Damaged
    BY <2>4, DamagedFile
  <2>5. QED BY <2>1, <2>3, <2>4
<1>10. FilesTyped' /\ disk'[f] = found /\ writer'[f] = w /\ OthersStand(f)
  <2>1. FilesTyped /\ w \in Process \cup {Nobody}
    BY DEF AskedInvariant
  <2>2. Sound(found)
    BY <1>9 DEF Sound
  <2>3. FileBecomes(f, found, w)
    BY <1>4, <1>found DEF FileBecomes
  <2>4. QED BY <2>1, <2>2, <2>3, FileIsWritten
<1>11. Delivered(p, next, disk', writer')
  <2>1. ASSUME NEW k \in 1..(written + 1), NEW g, g = FileOf[Targets(run.asked)[k]],
               writer'[g] = p, OnlyTarget(run.asked, k)
        PROVE  disk'[g] = run.results[k]
    <3>1. CASE k \in 1..written
      BY <1>1, <1>f, <1>2, <1>10, <2>1, <3>1, EarlierStand
    <3>2. CASE k \notin 1..written
      <4>1. k = written + 1
        BY <1>2, <3>2
      <4>2. g = f
        BY <1>f, <1>2, <2>1, <4>1 DEF Target
      <4>3. ~Shared(p, f)
        BY <1>w, <1>10, <2>1, <4>2, CommandLineAssumption
      <4>4. QED BY <1>result, <1>9, <1>10, <4>1, <4>2, <4>3
    <3>3. QED BY <3>1, <3>2
  <2>2. QED BY <1>5, <2>1 DEF Delivered
<1>12. QED BY <1>4, <1>6, <1>8, <1>10, <1>11, OneMoves DEF OthersStand

LEMMA AskedInvariantInductive == AskedInvariant /\ [Next]_vars => AskedInvariant'
<1> SUFFICES ASSUME AskedInvariant, [Next]_vars PROVE AskedInvariant'
  OBVIOUS
<1>1. CASE UNCHANGED vars
  BY <1>1 DEF vars, AskedInvariant, FilesTyped
<1>2. ASSUME NEW p \in Process, Enter(p) \/ Return(p) PROVE AskedInvariant'
  BY <1>2, StartingMoves
<1>3. ASSUME NEW p \in Process, Dispatch(p) PROVE AskedInvariant'
  BY <1>3, DispatchMove
<1>4. ASSUME NEW p \in Process, Guard(p) PROVE AskedInvariant'
  BY <1>4, GuardMove
<1>5. ASSUME NEW p \in Process, Open(p) PROVE AskedInvariant'
  BY <1>5, OpenMove
<1>6. ASSUME NEW p \in Process, Operate(p) PROVE AskedInvariant'
  BY <1>6, OperateMove
<1>7. ASSUME NEW p \in Process, StartWriting(p) PROVE AskedInvariant'
  BY <1>7, StartWritingMove
<1>8. ASSUME NEW p \in Process, FinishWriting(p) PROVE AskedInvariant'
  BY <1>8, FinishWritingMove
<1>9. ASSUME NEW p \in Process, WriteFails(p) \/ Kill(p) PROVE AskedInvariant'
  <2>1. PICK outcome \in {"save", "killed"} :
          /\ process' = [process EXCEPT ![p] = Ended(process[p], outcome)]
          /\ UNCHANGED <<disk, original, sanctioned, writer>>
    BY <1>9 DEF WriteFails, Kill
  <2>2. QED BY <2>1, EndingMove DEF Outcome
<1>10. QED BY <1>1, <1>2, <1>3, <1>4, <1>5, <1>6, <1>7, <1>8, <1>9 DEF Next

\* Nothing but what is typed reaches a command, and none of it is lost: each
\* item of an accepted line is a path, a flag, its value, --force or the bare
\* "--" (args.rs), what a run has opened are documents with pages, and every
\* variable keeps its type.
THEOREM LinesAreUnderstoodHolds == Spec => []LinesAreUnderstood
<1>1. ASSUME AskedInvariant PROVE TypeOK
  <2>1. ASSUME NEW p \in Process
        PROVE  /\ DOMAIN process[p] = DOMAIN Idle
               /\ process[p].at \in Stage
               /\ process[p].asked \in Invocation
               /\ process[p].outcome \in Outcome
               /\ process[p].at = "ended" <=> process[p].outcome # "none"
               /\ \A d \in ToSet(process[p].opened \o process[p].results) : d \in OpenDocuments
               /\ process[p].written <= Len(process[p].results)
               /\ process[p].at = "writing" => process[p].written < Len(process[p].results)
    <3>run. PICK run : run = process[p]
      OBVIOUS
    <3>1. RunTyped(run) /\ RunStaged(run)
      BY <1>1, <3>run DEF AskedInvariant
    <3>2. run.opened \o run.results \in Seq(OpenDocuments)
      BY <3>1 DEF RunTyped
    <3>3. \A d \in ToSet(run.opened \o run.results) : d \in OpenDocuments
      <4>1. PICK all \in Seq(OpenDocuments) : all = run.opened \o run.results
        BY <3>2
      <4>2. \A i \in DOMAIN all : all[i] \in OpenDocuments
        BY LenProperties, ElementOfSeq
      <4>3. QED BY <4>1, <4>2 DEF ToSet
    <3>4. run.at = "writing" => run.written < Len(run.results)
      BY <3>1 DEF RunStaged, Delivering
    <3>5. QED BY <3>run, <3>1, <3>3, <3>4 DEF RunTyped, AskedOK
  <2>2. QED BY <1>1, <2>1 DEF TypeOK, AskedInvariant, FilesTyped, Stage, OpenDocuments
<1>2. ASSUME AskedInvariant PROVE EveryItemIsClaimed
  <2>1. ASSUME NEW p \in Process, Parsed(process[p].argv).command \in DOMAIN ValueFlags
        PROVE  ItemsClaimed(process[p].argv, Parsed(process[p].argv))
    BY <1>2, <2>1, ParsedIsAsked DEF AskedInvariant, RunTyped
  <2>2. QED BY <2>1 DEF EveryItemIsClaimed, ItemsClaimed
<1>3. AskedInvariant => LinesAreUnderstood
  BY <1>1, <1>2 DEF LinesAreUnderstood
<1>4. QED BY <1>3, AskedInitially, AskedInvariantInductive, PTL DEF Spec

\* A run that exits with 0 has done what its line asked for (split.rs, rotate.rs,
\* extract.rs, merge.rs, range.rs and the two saves of save.rs): each of its
\* files that no other process wrote to, and that no other of its outputs
\* names, holds the pages asked for, in order and each once, and hides nothing
\* but what the input hid and what the first half of a split gave up.
THEOREM SuccessIsWhatWasAskedHolds == Spec => []SuccessIsWhatWasAsked
<1>1. ASSUME AskedInvariant, NEW p \in Process, NEW run, run = process[p],
             ExitCode(run.outcome) = 0, run.asked.command \in DOMAIN ValueFlags,
             NEW k \in DOMAIN Targets(run.asked), NEW f, f = FileOf[Targets(run.asked)[k]],
             writer[f] = p, OnlyTarget(run.asked, k)
      PROVE  /\ disk[f].state = "pdf" /\ disk[f].pages = PagesAsked(run, k)
             /\ disk[f].hidden \subseteq Behind(run, k)
  <2>1. RunTyped(run) /\ RunStaged(run) /\ Delivered(p, run, disk, writer)
    BY <1>1 DEF AskedInvariant
  <2>2. run.outcome = "success"
    BY <1>1, <2>1 DEF ExitCode, RunTyped, Outcome
  <2>3. Delivering(run) /\ run.at = "ended"
    BY <1>1, <2>1, <2>2 DEF Delivering, ValueFlags, Working, RunTyped
  <2>4. GivesAsked(run, run.results) /\ ~(run.written < Len(run.results))
    BY <2>1, <2>3 DEF RunStaged
  <2>5. PICK targets \in Seq(Text) : targets = Targets(run.asked)
    BY <2>1, TargetsAreTexts DEF RunTyped
  <2>6. PICK n \in Nat : n = Len(run.results) /\ n = Len(targets) /\ DOMAIN targets = 1..n
    BY <2>4, <2>5, LenProperties DEF GivesAsked
  <2>7. run.written = n
    BY <2>1, <2>4, <2>6 DEF RunTyped
  <2>8. k \in 1..n
    BY <1>1, <2>5, <2>6
  <2>9. disk[f] = run.results[k]
    BY <1>1, <2>1, <2>3, <2>7, <2>8 DEF Delivered
  <2>10. run.results[k] \in OpenDocuments
    BY <2>1, <2>6, <2>8, ElementOfSeq DEF RunTyped
  <2>11. /\ run.results[k].pages = PagesAsked(run, k)
         /\ run.results[k].hidden \subseteq Behind(run, k)
    BY <2>4, <2>6, <2>8 DEF GivesAsked
  <2>12. QED BY <2>9, <2>10, <2>11 DEF OpenDocuments
<1>2. AskedInvariant => SuccessIsWhatWasAsked
  BY <1>1 DEF SuccessIsWhatWasAsked, OnlyTarget
<1>3. QED BY <1>2, AskedInitially, AskedInvariantInductive, PTL DEF Spec
=============================================================================
