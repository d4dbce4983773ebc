----------------------------- MODULE MCBroadcast -----------------------------
(* One exec request, one terminal and two broadcasters; messages and        *)
(* channels are so few that channels overflow.                             *)
EXTENDS Broadcast
=============================================================================
