--------------------------- MODULE MCStackResource ---------------------------
EXTENDS StackResource
=============================================================================
