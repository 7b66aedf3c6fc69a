---------------------------- MODULE CommandArgs ----------------------------
(***************************************************************************)
(* What opdf-cli makes of its command line (opdf-cli/src/args.rs), and of  *)
(* a --pages selection (opdf-cli/src/range.rs).                            *)
(*                                                                         *)
(* An item of argv is a text. What the program reads in a text is given by *)
(* the constants; a text none of them mentions is a plain word.            *)
(***************************************************************************)
EXTENDS Integers, Sequences, FiniteSets, SequencesExt

CONSTANTS
  Text,    \* the items a command line is made of
  Dashed,  \* those that begin with two dashes and hold no "="
  Inline,  \* those of the form --name=value: each with its <<name, value>>
  Pieces   \* texts with numbers in them, cut at the commas and then at the
           \* dashes: "2,4-" is << <<2>>, <<4, Blank>> >>

Blank == -1    \* nothing between two cuts
NotDigits == -2

ASSUME CommandArgsAssumption ==
  /\ Dashed \cup DOMAIN Inline \cup DOMAIN Pieces \subseteq Text
  /\ Dashed \cap DOMAIN Inline = {}
  /\ \A t \in DOMAIN Inline : Inline[t][2] \in Text
  /\ \A t \in DOMAIN Pieces : Pieces[t] \in Seq(Seq(Int))
  /\ Text \cap {"--", "--force"} \subseteq Dashed
  /\ DOMAIN Inline \cap {"merge", "split", "rotate", "extract"} = {}

Cut(t) == IF t \in DOMAIN Pieces THEN Pieces[t] ELSE << <<NotDigits>> >>

-----------------------------------------------------------------------------
\* The --pages selection. Page numbers start at 1.

OpenEnd == 0
Part == [first : Nat \ {0}, last : Nat]   \* last may be OpenEnd

IsPageNumber(n) == n >= 1

IsPart(p) ==
  \/ Len(p) = 1 /\ IsPageNumber(p[1])
  \/ /\ Len(p) = 2
     /\ p # <<Blank, Blank>>
     /\ \A i \in 1..2 : p[i] = Blank \/ IsPageNumber(p[i])
     /\ IsPageNumber(p[1]) /\ IsPageNumber(p[2]) => p[1] <= p[2]

PartOf(p) ==
  [first |-> IF p[1] = Blank THEN 1 ELSE p[1],
   last |-> IF p[Len(p)] = Blank THEN OpenEnd ELSE p[Len(p)]]

IsSelection(t) == Cut(t) # << >> /\ \A i \in DOMAIN Cut(t) : IsPart(Cut(t)[i])
SelectionOf(t) == [i \in DOMAIN Cut(t) |-> PartOf(Cut(t)[i])]

\* Resolution against a document of n pages, to positions counted from 0.
LastOf(part, n) == IF part.last = OpenEnd THEN n ELSE part.last
Fits(selection, n) ==
  \A i \in DOMAIN selection :
    selection[i].first <= n /\ LastOf(selection[i], n) <= n
NamedBy(part, n) == (part.first - 1)..(LastOf(part, n) - 1)

\* Sorted, each once.
Ascending(S) ==
  CHOOSE s \in [1..Cardinality(S) -> S] : \A i, j \in DOMAIN s : i < j => s[i] < s[j]

Resolved(selection, n) == Ascending(UNION {NamedBy(selection[k], n) : k \in DOMAIN selection})

\* Faulty variant: a run ends at its last position, not after it.
JoinedClosed(runs, i) ==
  IF runs # << >> /\ Last(runs)[2] = i - 1
  THEN Append(Front(runs), <<Last(runs)[1], i>>)
  ELSE Append(runs, <<i, i>>)

\* Half-open runs <<start, end>> of consecutive positions.
Joined(runs, i) ==
  IF runs # << >> /\ Last(runs)[2] = i
  THEN Append(Front(runs), <<Last(runs)[1], i + 1>>)
  ELSE Append(runs, <<i, i + 1>>)

ContiguousRuns(indices) ==
  LET runs[n \in 0..Len(indices)] == IF n = 0 THEN << >> ELSE Joined(runs[n - 1], indices[n])
  IN  runs[Len(indices)]

-----------------------------------------------------------------------------
\* Scanning: the subcommand's items as positionals and flags.

ValueFlags ==
  [merge |-> {}, split |-> {"--at", "--out-a", "--out-b"},
   rotate |-> {"--pages", "--degrees", "--out"}, extract |-> {"--pages", "--out"}]
Switches == {"--force"}

StartsAFlag(t) == t \in Dashed \cup DOMAIN Inline

\* A line half scanned: awaiting is the flag whose value is the next item,
\* ended says that "--" was met. A switch is a flag with no value.
NoFlag == "no flag"
NoValue == "no value"
BlankLine ==
  [positionals |-> << >>, flags |-> << >>, awaiting |-> NoFlag,
   ended |-> FALSE, misused |-> FALSE]
Misused(line) == [line EXCEPT !.misused = TRUE]
WithFlag(line, name, value) ==
  [line EXCEPT !.flags = Append(@, <<name, value>>), !.awaiting = NoFlag]
IsGiven(line, name) == \E i \in DOMAIN line.flags : line.flags[i][1] = name

ScanFlag(line, name, allowed) ==
  IF IsGiven(line, name) \/ name \notin allowed \cup Switches THEN Misused(line)
  ELSE IF name \in Switches THEN WithFlag(line, name, NoValue)
  ELSE [line EXCEPT !.awaiting = name]

ScanInline(line, name, value, allowed) ==
  IF IsGiven(line, name) \/ name \notin allowed THEN Misused(line)
  ELSE WithFlag(line, name, value)

ScanItem(line, t, allowed) ==
  IF line.misused THEN line
  ELSE IF line.ended THEN [line EXCEPT !.positionals = Append(@, t)]
  ELSE IF line.awaiting # NoFlag
       THEN IF StartsAFlag(t) THEN Misused(line) ELSE WithFlag(line, line.awaiting, t)
  ELSE IF t = "--" THEN [line EXCEPT !.ended = TRUE]
  ELSE IF t \in Dashed THEN ScanFlag(line, t, allowed)
  ELSE IF t \in DOMAIN Inline
       THEN ScanInline(line, Inline[t][1], Inline[t][2], allowed)
  ELSE [line EXCEPT !.positionals = Append(@, t)]

Scanned(items, allowed) ==
  LET lines[n \in 0..Len(items)] ==
        IF n = 0 THEN BlankLine ELSE ScanItem(lines[n - 1], items[n], allowed)
      line == lines[Len(items)]
  IN  IF line.awaiting # NoFlag THEN Misused(line) ELSE line

-----------------------------------------------------------------------------
\* From a scanned line to an invocation. Every way to misuse the line ends
\* the program alike, so they share one result.

Invocation ==
  [command : {"merge", "split", "rotate", "extract", "help", "version", "misuse"},
   inputs : Seq(Text), outputs : Seq(Text), force : BOOLEAN,
   at : Nat, pages : Seq(Part), turns : 0..3]

Plain(command) ==
  [command |-> command, inputs |-> << >>, outputs |-> << >>, force |-> FALSE,
   at |-> 0, pages |-> << >>, turns |-> 0]
Misuse == Plain("misuse")

ValueOf(line, name) ==
  line.flags[CHOOSE i \in DOMAIN line.flags : line.flags[i][1] = name][2]

IsPositive(t) == Len(Cut(t)) = 1 /\ Len(Cut(t)[1]) = 1 /\ IsPageNumber(Cut(t)[1][1])
PositiveOf(t) == Cut(t)[1][1]

\* Degrees: a whole number, maybe with a leading dash, and a multiple of 90.
IsWhole(t) ==
  /\ Len(Cut(t)) = 1
  /\ \/ Len(Cut(t)[1]) = 1 /\ Cut(t)[1][1] >= 0
     \/ Len(Cut(t)[1]) = 2 /\ Cut(t)[1][1] = Blank /\ Cut(t)[1][2] >= 0
DegreesOf(t) == IF Len(Cut(t)[1]) = 1 THEN Cut(t)[1][1] ELSE -Cut(t)[1][2]
IsRotation(t) == IsWhole(t) /\ DegreesOf(t) % 90 = 0
TurnsOf(t) == (DegreesOf(t) % 360) \div 90

Merging(line) ==
  IF Len(line.positionals) < 2 THEN Misuse
  ELSE [Plain("merge") EXCEPT
          !.force = IsGiven(line, "--force"),
          !.outputs = <<Head(line.positionals)>>,
          !.inputs = Tail(line.positionals)]

\* Faulty variant: what is left over on the line is ignored.
TakesFirst(line) == Len(line.positionals) >= 1

\* One input, and nothing left over.
TakesOne(line) == Len(line.positionals) = 1

Splitting(line) ==
  IF ~(/\ \A name \in ValueFlags.split : IsGiven(line, name)
       /\ IsPositive(ValueOf(line, "--at"))
       /\ TakesOne(line))
  THEN Misuse
  ELSE [Plain("split") EXCEPT
          !.force = IsGiven(line, "--force"),
          !.at = PositiveOf(ValueOf(line, "--at")),
          !.outputs = <<ValueOf(line, "--out-a"), ValueOf(line, "--out-b")>>,
          !.inputs = <<Head(line.positionals)>>]

Rotating(line) ==
  IF ~(/\ IsGiven(line, "--pages") /\ IsSelection(ValueOf(line, "--pages"))
       /\ IsGiven(line, "--degrees") /\ IsRotation(ValueOf(line, "--degrees"))
       /\ TakesOne(line))
  THEN Misuse
  ELSE [Plain("rotate") EXCEPT
          !.force = IsGiven(line, "--force"),
          !.pages = SelectionOf(ValueOf(line, "--pages")),
          !.turns = TurnsOf(ValueOf(line, "--degrees")),
          !.outputs = IF IsGiven(line, "--out") THEN <<ValueOf(line, "--out")>> ELSE << >>,
          !.inputs = <<Head(line.positionals)>>]

Extracting(line) ==
  IF ~(/\ IsGiven(line, "--pages") /\ IsSelection(ValueOf(line, "--pages"))
       /\ IsGiven(line, "--out")
       /\ TakesOne(line))
  THEN Misuse
  ELSE [Plain("extract") EXCEPT
          !.force = IsGiven(line, "--force"),
          !.pages = SelectionOf(ValueOf(line, "--pages")),
          !.outputs = <<ValueOf(line, "--out")>>,
          !.inputs = <<Head(line.positionals)>>]

\* Help and version win over everything before a bare "--".
HelpTexts == {"--help", "-h"}
VersionTexts == {"--version", "-V"}
AskedFirst(items) ==
  SelectSeq(items, LAMBDA t : t \in HelpTexts \cup VersionTexts \cup {"--"})

Subcommanded(items) ==
  IF items = << >> \/ items[1] \notin DOMAIN ValueFlags THEN Misuse
  ELSE LET line == Scanned(Tail(items), ValueFlags[items[1]])
       IN  CASE line.misused -> Misuse
             [] ~line.misused /\ items[1] = "merge" -> Merging(line)
             [] ~line.misused /\ items[1] = "split" -> Splitting(line)
             [] ~line.misused /\ items[1] = "rotate" -> Rotating(line)
             [] ~line.misused /\ items[1] = "extract" -> Extracting(line)

Parsed(items) ==
  LET asked == AskedFirst(items)
  IN  CASE asked # << >> /\ Head(asked) \in HelpTexts -> Plain("help")
        [] asked # << >> /\ Head(asked) \in VersionTexts -> Plain("version")
        [] OTHER -> Subcommanded(items)
=============================================================================
