------------------------------ MODULE Commands ------------------------------
(***************************************************************************)
(* The commands of opdf-ops that edit one page, and the inverse each hands *)
(* back when it is applied.                                                *)
(***************************************************************************)
EXTENDS PageMap

RemoveCommand == [op : {"remove"}, page : PageId]
RestoreCommand == [op : {"restore"}, page : PageId, at : Nat]
RotateCommand == [op : {"rotate"}, page : PageId, rotation : Rotations]
MoveCommand == [op : {"move"}, page : PageId, to : Nat]
InsertCommand == [op : {"insert"}, at : Nat]

\* The commands an inverse can be: none of them allocates an identity.
Inversion == RemoveCommand \cup RestoreCommand \cup RotateCommand \cup MoveCommand
Command == Inversion \cup InsertCommand

Accepts(c, d) ==
  CASE c.op = "remove" -> CanRemove(d, c.page)
    [] c.op = "restore" -> CanRestore(d, c.page, c.at)
    [] c.op = "rotate" -> CanRotate(d, c.page)
    [] c.op = "move" -> CanMove(d, c.page, c.to)
    [] c.op = "insert" -> CanInsert(d, c.at)

Applied(c, d) ==
  CASE c.op = "remove" -> RemovePage(d, c.page)
    [] c.op = "restore" -> RestorePage(d, c.page, c.at)
    [] c.op = "rotate" -> SetRotation(d, c.page, c.rotation)
    [] c.op = "move" -> MovePage(d, c.page, c.to)
    [] c.op = "insert" -> InsertPage(d, c.at)

\* Faulty variant: the previous rotation is read after the new one is set.
InverseReadLate(c, d) ==
  CASE c.op = "remove" ->
         [op |-> "restore", page |-> c.page, at |-> IndexOf(d, c.page) - 1]
    [] c.op = "restore" -> [op |-> "remove", page |-> c.page]
    [] c.op = "rotate" -> c
    [] c.op = "move" ->
         [op |-> "move", page |-> c.page, to |-> IndexOf(d, c.page) - 1]
    [] c.op = "insert" -> [op |-> "remove", page |-> d.next]

InverseOf(c, d) ==
  CASE c.op = "remove" ->
         [op |-> "restore", page |-> c.page, at |-> IndexOf(d, c.page) - 1]
    [] c.op = "restore" -> [op |-> "remove", page |-> c.page]
    [] c.op = "rotate" ->
         [op |-> "rotate", page |-> c.page,
          rotation |-> d.slots[IndexOf(d, c.page)].rotation]
    [] c.op = "move" ->
         [op |-> "move", page |-> c.page, to |-> IndexOf(d, c.page) - 1]
    [] c.op = "insert" -> [op |-> "remove", page |-> d.next]

-----------------------------------------------------------------------------
\* What an inverse is for

\* Document e can stand in for document d: the same pages in the same order,
\* and at least d's trash to restore from.
StandsFor(e, d) == e.slots = d.slots /\ d.removed \subseteq e.removed

\* Command c, applied to document d, is accepted and brings back document e.
LeadsTo(c, d, e) == Accepts(c, d) /\ StandsFor(Applied(c, d), e)
=============================================================================
