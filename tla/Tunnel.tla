------------------------------- MODULE Tunnel -------------------------------
(***************************************************************************)
(* What main() relies on of a tunnel.Tunnel (internal/tunnel/              *)
(* localforward.go:16-21), whichever way it forwards: it is served by      *)
(* goroutines that only goroutines of its own start, it holds the ports    *)
(* and the connection of one connection at a time and gives them back      *)
(* before it makes another, and when Stop has returned nothing of it is    *)
(* left that could accept, serve or connect.                               *)
(***************************************************************************)
CONSTANTS Connections,  \* names of the connections it makes
          Goroutines,   \* names of the goroutines Stop waits for
          Main          \* the one that Start starts

VARIABLES held,         \* connections with a client or a listener open
          active,       \* goroutines running
          stop          \* Stop(): "no", "waiting", "returned"

vars == <<held, active, stop>>

Init == held = {} /\ active = {Main} /\ stop = "no"

StopCall == stop = "no" /\ stop' = "waiting" /\ UNCHANGED <<held, active>>

StopReturn ==
    /\ stop = "waiting" /\ active = {} /\ held = {}
    /\ stop' = "returned"
    /\ UNCHANGED <<held, active>>

Connect ==
    /\ Main \in active /\ held = {}
    /\ \E k \in Connections : held' = {k}
    /\ UNCHANGED <<active, stop>>

Disconnect == held # {} /\ held' = {} /\ UNCHANGED <<active, stop>>

(* The WaitGroup is never added to at zero, where Stop could have returned. *)
Spawn ==
    /\ active # {}
    /\ active \subseteq active' /\ active' \subseteq active \cup Goroutines
    /\ UNCHANGED <<held, stop>>

Finish ==
    /\ \E g \in active : active' = active \ {g}
    /\ UNCHANGED <<held, stop>>

Next == StopCall \/ StopReturn \/ Connect \/ Disconnect \/ Spawn \/ Finish

Spec == Init /\ [][Next]_vars
=============================================================================
