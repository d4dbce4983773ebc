--------------------------- MODULE MCLocalForward ---------------------------
EXTENDS LocalForward
=============================================================================
