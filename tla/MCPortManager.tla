--------------------------- MODULE MCPortManager ---------------------------
(* Two devices that PortMapping gives the same SSH port, one of them listed *)
(* twice in the configuration.                                              *)
EXTENDS PortManager, TLC

MCDevices == {"COM3", "3"}
MCPortOf == [d \in MCDevices |-> 2203]
MCBootPorts == <<"COM3", "COM3">>
MCSymmetry == Permutations(Clients)
=============================================================================
