---------------------------- MODULE MCRingBuffer ----------------------------
(* The ring buffer with lines of 0 to 3 bytes; a line of 3 alone is already *)
(* over the byte limit of the small instances.                             *)
EXTENDS RingBuffer

MCSizes == {0, 1, 3}
=============================================================================
