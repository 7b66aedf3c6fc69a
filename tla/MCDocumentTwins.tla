--------------------------- MODULE MCDocumentTwins ---------------------------
EXTENDS DocumentTwins
=============================================================================
