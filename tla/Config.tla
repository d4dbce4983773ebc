------------------------------- MODULE Config -------------------------------
(***************************************************************************)
(* internal/config/config.go, and what main() and the command tunnel-ports *)
(* derive from a configuration: the port of a device, the tunnels that are *)
(* started and the ports they bind.                                        *)
(*                                                                         *)
(* A configuration is a record of settings, with the tunnels in reverse,   *)
(* adb, serial and the sequence list.  The zero value of any Go field (0   *)
(* or "") is Unset.  Durations are in seconds.                             *)
(***************************************************************************)
EXTENDS Integers, Sequences, TLC

CONSTANTS Unset,        \* the zero value of a field
          Here,         \* this machine, as the host of a port
          Number        \* Number[d]: the number device d ends in, Unset if none

Fill(c, defaults) ==
    [f \in DOMAIN c |->
        IF c[f] = Unset /\ f \in DOMAIN defaults THEN defaults[f] ELSE c[f]]

Settings ==
    [httpPort |-> 8080,
     baudrate |-> 115200, timeout |-> 5, byteSize |-> 8, parity |-> "N",
     stopBits |-> 1, writeTimeout |-> 10, silenceTimeout |-> 5, maxDuration |-> 30,
     maxLines |-> 100000, maxBytes |-> 10485760,
     basePort |-> 2200, authType |-> "password",
     initialInterval |-> 1, maxInterval |-> 30,
     level |-> "info", format |-> "text", output |-> "stdout",
     filePath |-> "gateway.log", logMaxSizeMB |-> 100, logMaxAgeDays |-> 30,
     logMaxBackups |-> 7,
     outputDir |-> "./serial_logs", maxSizeMB |-> 1024, trimSizeMB |-> 100]

AnyTunnel == [port |-> 22, user |-> "root", bind |-> "0.0.0.0"]
PlainTunnel == AnyTunnel @@ [mode |-> "tcp", targetHost |-> "127.0.0.1"]
ReverseDefaults(c) == PlainTunnel @@ [remotePort |-> 18080, localPort |-> c.httpPort]
AdbDefaults == PlainTunnel @@ [remotePort |-> 15037, localPort |-> 5037]
ListDefaults(t) ==
    IF t.kind = "serial_ssh" THEN AnyTunnel @@ [mode |-> "tcp"] ELSE PlainTunnel

FillTunnel(t, defaults) == IF t.host = Unset THEN t ELSE Fill(t, defaults)

ApplyDefaults(cfg) ==
    LET c == Fill(cfg, Settings)
    IN  [c EXCEPT !.reverse = FillTunnel(@, ReverseDefaults(c)),
                  !.adb     = FillTunnel(@, AdbDefaults),
                  !.serial  = FillTunnel(@, AnyTunnel),
                  !.list    = [i \in DOMAIN @ |-> FillTunnel(@[i], ListDefaults(@[i]))]]

(* Load, then the flag -http-port, which replaces the port and nothing that *)
(* a default has been computed from it.                                     *)
Loaded(file, flag) ==
    LET c == ApplyDefaults(file)
    IN  IF flag = Unset THEN c ELSE [c EXCEPT !.httpPort = flag]

-----------------------------------------------------------------------------
(* 0 stands for "no port".                                                  *)
PortMapping(d, c) == IF Number[d] = Unset THEN 0 ELSE c.basePort + Number[d]

Devices(c) == {c.ports[i] : i \in DOMAIN c.ports}

SerialSSHForwards(c) == {PortMapping(d, c) : d \in Devices(c)} \ {0}

(* main(): the tunnels of a configuration in the order they are started.    *)
Tunnels(c) ==
    <<c.reverse, c.adb, [c.serial EXCEPT !.kind = "serial_ssh"]>> \o c.list

(* The listeners startReverseTunnel has a tunnel open, as <<host, port>>;   *)
(* none for a serial_ssh tunnel without forwards, which is not started.     *)
Binds(t, c) ==
    CASE t.kind = "local_forward" -> {<<Here, t.localPort>>}
      [] t.kind = "serial_ssh"    -> {t.host} \X SerialSSHForwards(c)
      [] OTHER                    -> {<<t.host, t.remotePort>>}

Started(c) ==
    {i \in DOMAIN Tunnels(c) : /\ Tunnels(c)[i].host # Unset
                               /\ Binds(Tunnels(c)[i], c) # {}}

(* Connections of a tunnel in this mode are answered by a ProxyBridge.      *)
IsProxy(t, c) ==
    /\ t.kind # "local_forward" /\ t.mode = "ssh_proxy"
    /\ t.kind = "serial_ssh" => \E p \in SerialSSHForwards(c) : SerialSSHForwards(c) = {p}

-----------------------------------------------------------------------------
(* cmd/tunnel-ports: it loads the file by itself and repeats the derivation.*)

SeenPorts(c) ==
    {c.basePort + Number[d] : d \in {e \in Devices(c) : Number[e] # Unset}} \ {0}

BuildTarget_NoKind(t, c) == {<<t.host, t.remotePort>>}       \* Mutant: no case for a kind
BuildTarget(t, c) ==
    LET remotePorts == CASE t.kind = "local_forward" -> {}
                         [] t.kind = "serial_ssh"    -> SeenPorts(c)
                         [] OTHER                    -> {t.remotePort}
        localPort   == IF t.kind = "local_forward" THEN {t.localPort} ELSE {}
    IN  {t.host} \X remotePorts \cup {Here} \X localPort

Named(c) == {c.reverse, c.adb, [c.serial EXCEPT !.kind = "serial_ssh"]}

Listed(file) ==
    LET c == ApplyDefaults(file)
        targets == {t \in Named(c) \cup {c.list[i] : i \in DOMAIN c.list} : t.host # Unset}
    IN  UNION {BuildTarget(t, c) : t \in targets}
=============================================================================
