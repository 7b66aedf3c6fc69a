--------------------------- MODULE MCEditHistory ---------------------------
EXTENDS EditHistory
=============================================================================
