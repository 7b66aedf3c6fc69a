---------------------------- MODULE DocumentTwins ----------------------------
(***************************************************************************)
(* The two implementations of the Document trait side by side: the fake    *)
(* every other crate is tested against (VecDocument) and the real document *)
(* (PdfDocument). Two documents of each are open, and whatever is called   *)
(* on one of the fakes is called on its twin: page edits, imports from the *)
(* other document, and carriers a caller takes out of one document and     *)
(* holds until it puts them into another.                                  *)
(***************************************************************************)
EXTENDS PdfDocument

CONSTANTS
  Sizes,      \* the page sizes a blank page is inserted with
  Unknown,    \* an identity no document ever holds
  Beyond,     \* a position past the end of every document
  MaxPages,   \* bound: the pages a document is made with
  MaxEdits,   \* bound: the edits accepted in a behaviour
  MaxCarried, \* bound: the pages of one export or import of a behaviour
  MaxAsked    \* bound: the pages of one export or import the properties try

ASSUME TwinsAssumption ==
  /\ MaxPages \in Nat /\ MaxEdits \in Nat /\ MaxCarried \in Nat /\ MaxAsked \in Nat
  /\ Unknown \in Nat /\ Beyond \in Nat
  /\ MaxEdits < RevisionModulus

VARIABLES
  fake,      \* the open VecDocuments
  real,      \* their PdfDocument twins
  carrier    \* the carriers the caller holds, one per implementation, or None

vars == <<fake, real, carrier>>

\* The document edited, and the one pages are copied from.
Open == {"target", "source"}
None == <<>>

Vec == INSTANCE VecDocument

\* The fixtures the two crates give the suite: unrotated pages of one size.
MadeFake(n) == Vec!WithPages(0, n, "A4")
MadeReal(n) ==
  IF n = 0 THEN Empty(0) ELSE Parsed(0, [i \in 1..n |-> [size |-> "A4", rotation |-> 0]])

FakeContract == INSTANCE DocumentContract
  WITH Do <- Vec!Do, View <- Vec!View, Made <- MadeFake, Writer <- "vec", Turns <- Rotations
RealContract == INSTANCE DocumentContract
  WITH Do <- Do, View <- View, Made <- MadeReal, Writer <- "pdf", Turns <- Rotations

\* Identities are minted one after the other, for every document of the process.
Init ==
  /\ \E pages \in 0..MaxPages :
       /\ fake = [target |-> [MadeFake(pages) EXCEPT !.document = 1],
                  source |-> [MadeFake(MaxPages) EXCEPT !.document = 2]]
       /\ real = [target |-> [MadeReal(pages) EXCEPT !.document = 3],
                  source |-> [MadeReal(MaxPages) EXCEPT !.document = 4]]
  /\ carrier = None

-----------------------------------------------------------------------------
Edits == fake["target"].revision + fake["source"].revision

\* The identities a caller may name: the pages, the removed ones, and one the
\* document never held.
Names(o) == FakeContract!Known(Vec!View(fake[o])) \cup {Unknown}
Selections(o, most) == UNION {[1..n -> Names(o)] : n \in 0..most}
Places == 0..(Len(fake["target"].pages) + 1)

\* The same call on document o and on its twin.
Called(o, onFake, onReal) ==
  /\ Edits < MaxEdits
  /\ fake' = [fake EXCEPT ![o] = Vec!Do(@, onFake).document]
  /\ real' = [real EXCEPT ![o] = Do(@, onReal).document]

CalledAlike(o, c) == Called(o, c, c) /\ UNCHANGED carrier

\* The source is edited too, so that pages it is asked for are turned or gone.
CallRemovePage == \E o \in Open : \E p \in Names(o) : CalledAlike(o, RemovePageCall(p))

CallSetRotation ==
  \E o \in Open : \E p \in Names(o), r \in Rotations : CalledAlike(o, SetRotationCall(p, r))

CallRestorePage ==
  \E p \in Names("target"), at \in Places : CalledAlike("target", RestorePageCall(p, at))

CallMovePage ==
  \E p \in Names("target"), to \in Places : CalledAlike("target", MovePageCall(p, to))

CallInsertPage ==
  \E at \in Places, size \in Sizes : CalledAlike("target", InsertPageCall(at, size))

CallImportPages ==
  \E ids \in Selections("source", MaxCarried), at \in Places :
    /\ Called("target", ImportPagesCall(fake["source"], ids, at),
                        ImportPagesCall(real["source"], ids, at))
    /\ UNCHANGED carrier

\* The caller takes pages out of a document; a refused export gives no carrier.
CallExportPages ==
  \E o \in Open : \E ids \in Selections(o, MaxCarried) :
    LET ofFake == Vec!Do(fake[o], ExportPagesCall(ids)).answer
        ofReal == Do(real[o], ExportPagesCall(ids)).answer
    IN  /\ ofFake.kind = "Ok" /\ ofReal.kind = "Ok"
        /\ carrier' = [vec |-> ofFake.values[1], pdf |-> ofReal.values[1]]
        /\ UNCHANGED <<fake, real>>

\* The carrier is moved into the call, whatever the call answers.
CallImportPortable ==
  /\ carrier # None
  /\ \E at \in Places :
       Called("target", ImportPortableCall(carrier.vec, at), ImportPortableCall(carrier.pdf, at))
  /\ carrier' = None

Next ==
  \/ CallRemovePage \/ CallRestorePage \/ CallMovePage \/ CallSetRotation
  \/ CallInsertPage \/ CallImportPages \/ CallExportPages \/ CallImportPortable

Spec == Init /\ [][Next]_vars

-----------------------------------------------------------------------------
\* Every call a caller can make next on the target, paired with the same call
\* on its twin. A carrier can also be handed to the other implementation.
Alike(c) == [fake |-> c, real |-> c]

Calls ==
  LET names == Names("target")
      handed == IF carrier = None THEN {}
                ELSE { <<carrier.vec, carrier.pdf>>, <<carrier.pdf, carrier.vec>> }
  IN  {Alike(PageCall(p)) : p \in names}
        \cup {Alike(IndexOfCall(p)) : p \in names}
        \cup {Alike(RemovePageCall(p)) : p \in names}
        \cup {Alike(RestorePageCall(p, at)) : p \in names, at \in Places}
        \cup {Alike(MovePageCall(p, to)) : p \in names, to \in Places}
        \cup {Alike(SetRotationCall(p, r)) : p \in names, r \in Rotations}
        \cup {Alike(InsertPageCall(at, size)) : at \in Places, size \in Sizes}
        \cup {Alike(ExportPagesCall(ids)) : ids \in Selections("target", MaxAsked)}
        \cup {[fake |-> ImportPagesCall(fake["source"], ids, at),
               real |-> ImportPagesCall(real["source"], ids, at)] :
                 ids \in Selections("source", MaxAsked), at \in Places}
        \cup {[fake |-> ImportPortableCall(h[1], at), real |-> ImportPortableCall(h[2], at)] :
                 h \in handed, at \in Places}

\* A view without the identity of its document, which no two documents share.
SameView(v, w) == [v EXCEPT !.document = 0] = [w EXCEPT !.document = 0]

SameAnswer(c, ofFake, ofReal) ==
  IF c.op = "export_pages" /\ ofFake.kind = "Ok" /\ ofReal.kind = "Ok"
  THEN ofFake.values[1].pages = ofReal.values[1].pages
  ELSE ofFake = ofReal

\* Types: both documents are what their modules say, the real one well formed.
TypeOK ==
  /\ \A o \in Open : /\ real[o].map \in [slots : Seq(Slot), removed : SUBSET Slot,
                                         next : Nat, revision : Revision]
                     /\ WellFormed(real[o].map)
                     /\ DOMAIN real[o].sizes = 1..real[o].map.next
                     /\ fake[o].revision \in Revision
  /\ carrier # None => carrier.vec.writer = "vec" /\ carrier.pdf.writer = "pdf"

\* A test against the fake is a test of the real document: after the same
\* calls the two show the same pages in the same order with the same sizes and
\* rotations, retain the same removed pages and have the same revision, and
\* whatever is called next, they answer alike, errors and identities included.
TwinsAnswerAlike ==
  /\ TypeOK
  /\ \A o \in Open : SameView(Vec!View(fake[o]), View(real[o]))
  /\ \A c \in Calls :
       SameAnswer(c.fake, Vec!Do(fake["target"], c.fake).answer, Do(real["target"], c.real).answer)

\* Both keep every promise of the trait's documentation for every call: the
\* errors it names, nothing changed by a refusal or a read, the effect it
\* describes and an advanced revision otherwise.
PromisesAreKept ==
  \A c \in Calls : /\ FakeContract!Promised(fake["target"], c.fake)
                   /\ RealContract!Promised(real["target"], c.real)

\* The contract suite, which builds a fresh document for each assertion, passes
\* on both implementations whatever the document has been through.
SuitePasses == FakeContract!Suite(fake["target"]) /\ RealContract!Suite(real["target"])

\* Both implementations are documents: they do what the trait's documentation
\* promises, and the suite that samples the promises never tells otherwise.
BothKeepTheContract == PromisesAreKept /\ SuitePasses
=============================================================================
