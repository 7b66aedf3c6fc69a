---------------------------- MODULE MCViewState ----------------------------
EXTENDS ViewState

P(id, width, height) == [id |-> id, width |-> width, height |-> height, turned |-> FALSE]
MCDocuments == {<< >>, <<P(0, 2, 3), P(1, 4, 2)>>, <<P(0, 3, 8)>>}
MCWindows == {[width |-> 12, height |-> 12], [width |-> 19, height |-> 6]}
=============================================================================
