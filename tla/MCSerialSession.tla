-------------------------- MODULE MCSerialSession ---------------------------
(* Instances of SerialSession for TLC; the values are in the cfg files.    *)
EXTENDS SerialSession

=============================================================================
