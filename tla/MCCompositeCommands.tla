------------------------ MODULE MCCompositeCommands ------------------------
EXTENDS CompositeCommands

CONSTANTS a, b
=============================================================================
