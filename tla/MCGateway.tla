----------------------------- MODULE MCGateway ------------------------------
EXTENDS Gateway

MCNumber == [COM3 |-> 3, COM4 |-> 4, usb |-> Unset]
MCCallers == {Main, Http} \cup {Caller(t) : t \in Tids}
MCFlags == {9090}
MCTids == 1..5

NoTunnel == [host |-> Unset, port |-> Unset, user |-> Unset, kind |-> Unset, mode |-> Unset,
             bind |-> Unset, remotePort |-> Unset, localPort |-> Unset, targetHost |-> Unset]
To(h) == [NoTunnel EXCEPT !.host = h]
Empty == [httpPort |-> Unset, basePort |-> Unset, authType |-> Unset, ports |-> <<>>,
          reverse |-> NoTunnel, adb |-> NoTunnel, serial |-> NoTunnel, list |-> <<>>]

\* A proxy, and the serial ports on one host; one port is without a number, one twice.
Usual == [Empty EXCEPT !.ports = <<"usb", "COM3", "COM3">>,
                       !.reverse = [To("relay") EXCEPT !.mode = "ssh_proxy"],
                       !.serial = To("relay")]
\* No port that AutoStart could start; a proxy, a local forward, and a tunnel
\* of kind serial_ssh that has nothing to forward.
Bare == [Empty EXCEPT !.ports = <<"usb">>,
                      !.reverse = [To("relay") EXCEPT !.mode = "ssh_proxy"],
                      !.list = << [To("relay") EXCEPT !.kind = "local_forward", !.localPort = 7000],
                                  [To("relay") EXCEPT !.kind = "serial_ssh"] >>]
\* Two tunnels that want one port, and a proxy that is not allowed.
Clash == [Empty EXCEPT !.authType = "key", !.adb = To("relay"), !.ports = <<"COM4">>,
                       !.reverse = [To("other") EXCEPT !.mode = "ssh_proxy"],
                       !.list = << [To("relay") EXCEPT !.remotePort = 15037, !.localPort = 5000] >>]
MCFiles == {Usual, Bare, Clash}
=============================================================================
