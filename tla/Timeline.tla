------------------------------ MODULE Timeline ------------------------------
(***************************************************************************)
(* What an undo history promises, without commands and inverses: the user  *)
(* walks along a line of document states. history holds the states within  *)
(* reach, oldest first, and cursor says which one is shown. Undo and redo  *)
(* move the cursor and change no state; an edit drops everything after the *)
(* cursor and appends the state it produced; beyond Limit steps the oldest *)
(* state is forgotten.                                                     *)
(*                                                                         *)
(* UndoStack (opdf-ops/src/undo_stack.rs) documents this behaviour;        *)
(* EditHistory is shown to implement it.                                   *)
(***************************************************************************)
EXTENDS Integers, Sequences

CONSTANTS
  State,  \* what the user can be shown
  Limit   \* how many steps back the history reaches

VARIABLES history, cursor

Bounded(s) == IF Len(s) > Limit + 1 THEN Tail(s) ELSE s

\* A state is never chosen from State, only tested for membership: State may
\* be infinite.
Init == Len(history) = 1 /\ history[1] \in State /\ cursor = 1

Edit ==
  /\ Len(history') > 0
  /\ history'[Len(history')] \in State
  /\ history' = Bounded(Append(SubSeq(history, 1, cursor), history'[Len(history')]))
  /\ cursor' = Len(history')

Undo ==
  /\ cursor > 1
  /\ cursor' = cursor - 1
  /\ UNCHANGED history

Redo ==
  /\ cursor < Len(history)
  /\ cursor' = cursor + 1
  /\ UNCHANGED history

\* The history is emptied: what is shown becomes all there is.
Restart ==
  /\ Len(history') = 1
  /\ history'[1] \in State
  /\ cursor' = 1

Next == Edit \/ Undo \/ Redo \/ Restart

Spec == Init /\ [][Next]_<<history, cursor>>
=============================================================================
