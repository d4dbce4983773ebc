--------------------------- MODULE MCFileRecorder ---------------------------
(* The recorder with a file of a few bytes; the configurations choose which *)
(* of faults, crashes and shutdown may happen.                             *)
EXTENDS FileRecorder
=============================================================================
