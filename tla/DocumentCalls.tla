---------------------------- MODULE DocumentCalls ----------------------------
(***************************************************************************)
(* The vocabulary of the Document trait (opdf-core/src/document.rs): the   *)
(* calls a caller can make, the answers they give, and the carrier pages   *)
(* travel in between two documents.                                        *)
(*                                                                         *)
(* A document as its caller sees it is a view: its own identity, its pages *)
(* in order, the removed pages it retains, and its revision.               *)
(***************************************************************************)
EXTENDS Integers, Sequences

PageInfo(id, size, rotation) == [id |-> id, size |-> size, rotation |-> rotation]

ViewOf(document, pages, retained, revision) ==
  [document |-> document, pages |-> pages, retained |-> retained, revision |-> revision]

-----------------------------------------------------------------------------
\* Answers: Ok with the values returned, or the kind of the error.
Ok(values) == [kind |-> "Ok", values |-> values]
Err(kind) == [kind |-> kind, values |-> <<>>]

PageNotFound == Err("PageNotFound")
IndexOutOfBounds == Err("IndexOutOfBounds")
Unsupported == Err("Unsupported")

\* What a call leaves behind: its answer and the document.
Outcome(answer, document) == [answer |-> answer, document |-> document]

-----------------------------------------------------------------------------
\* The carrier export_pages fills and import_portable consumes. Only the
\* implementation that wrote the payload can name its type and take it back.
PortablePages(writer, pages) == [writer |-> writer, pages |-> pages]

Takes(carrier, reader) == carrier.writer = reader

-----------------------------------------------------------------------------
\* The methods of the trait.
PageCall(p) == [op |-> "page", page |-> p]
IndexOfCall(p) == [op |-> "index_of", page |-> p]
RemovePageCall(p) == [op |-> "remove_page", page |-> p]
RestorePageCall(p, at) == [op |-> "restore_page", page |-> p, at |-> at]
MovePageCall(p, to) == [op |-> "move_page", page |-> p, at |-> to]
SetRotationCall(p, r) == [op |-> "set_rotation", page |-> p, rotation |-> r]
InsertPageCall(at, size) == [op |-> "insert_page", at |-> at, size |-> size]
ImportPagesCall(source, ids, at) ==
  [op |-> "import_pages", source |-> source, ids |-> ids, at |-> at]
ExportPagesCall(ids) == [op |-> "export_pages", ids |-> ids]
ImportPortableCall(carrier, at) ==
  [op |-> "import_portable", carrier |-> carrier, at |-> at]

Reads == {"page", "index_of", "export_pages"}
=============================================================================
