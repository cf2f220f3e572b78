--------------------------- MODULE MCControlFlow ---------------------------
EXTENDS ControlFlow
============================================================================
