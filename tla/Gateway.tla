------------------------------ MODULE Gateway -------------------------------
(***************************************************************************)
(* The whole gateway process over several of its lives (cmd/               *)
(* serial-gateway/main.go): it loads the configuration, starts the SSH     *)
(* servers of the configured ports, starts the tunnels, serves HTTP, and   *)
(* on an interrupt stops the tunnels and shuts the servers down.  Its      *)
(* components appear here as far as they share something: servers and      *)
(* proxies the file host_key (HostKey), servers, tunnels and the command   *)
(* tunnel-ports the configuration (Config), and the tunnels the ports of   *)
(* the hosts they connect to.  PortManager, ReverseTunnel and LocalForward *)
(* model the inside of each.                                               *)
(*                                                                         *)
(* Before it binds its ports a tunnel looks for processes on the host that *)
(* hold them, and again when a bind fails.  It finds none: the pattern the *)
(* search is made with, pid=\\K in a raw string, asks for a backslash after *)
(* "pid=", which ss does not print.  So the searches are no steps here.    *)
(* Returning an error and dialling again is one step.                      *)
(***************************************************************************)
EXTENDS Config, HostKey, FiniteSets

CONSTANTS Files,        \* configurations that may be on disk
          Flags,        \* values of -http-port
          Tids,         \* positions of tunnels in a configuration
          MaxFaults     \* bound: crashes, lost links, failed accesses to host_key

Caller(t) == <<"tunnel", t>>
Main == <<"main", 0>>
Http == <<"http", 0>>

ASSUME GatewayAssumption ==
    /\ Callers = {Main, Http} \cup {Caller(t) : t \in Tids}
    /\ Tids \subseteq Nat \ {0} /\ MaxFaults \in Nat
    /\ \A f \in Files :
          /\ {"reverse", "adb", "serial", "list", "ports", "basePort"} \subseteq DOMAIN f
          /\ f.ports \in Seq(DOMAIN Number)
          /\ f.list \in Seq({f.list[i] : i \in DOMAIN f.list})
          /\ 1..(3 + Len(f.list)) \subseteq Tids

VARIABLES file, cfg,    \* the configuration on disk, and as main() has it
          pc, next,     \* where main() is, and the port or tunnel it is at
          server,       \* what host_key gave the server of a device, Absent if none runs
          booted,       \* devices whose server AutoStart has started
          adding,       \* the device AddMapping is starting a server for
          tun,          \* where connect() of a tunnel is
          todo,         \* ports a tunnel has still to bind
          proxy,        \* what host_key gave the proxy of a tunnel
          holder,       \* who holds a port: Free, a tunnel, or what tunnel t left: -t
          faults

mvars == <<file, cfg, pc, next>>
svars == <<server, booted, adding>>
tvars == <<tun, todo, proxy, holder>>
vars == <<mvars, svars, tvars, keyVars, faults>>

Free == 0
Name == DOMAIN Number
Config(t) == Tunnels(cfg)[t]
BindsOf(t) == Binds(Config(t), cfg)
Ports(c) == UNION {Binds(Tunnels(c)[t], c) : t \in Started(c)}

Init ==
    /\ file \in Files /\ \E flag \in Flags : cfg = Loaded(file, flag)
    /\ pc = "down" /\ next = 1
    /\ server = [d \in Name |-> Absent] /\ booted = {} /\ adding = Unset
    /\ tun = [t \in Tids |-> "off"] /\ todo = [t \in Tids |-> {}]
    /\ proxy = [t \in Tids |-> Absent]
    /\ holder = [p \in Ports(cfg) |-> Free]
    /\ KeyInit /\ faults = 0

Fault == faults < MaxFaults /\ faults' = faults + 1

-----------------------------------------------------------------------------
(* main() and AutoStart.                                                    *)

Start ==
    /\ pc = "down" /\ pc' = "autostart" /\ next' = 1
    /\ UNCHANGED <<file, cfg, svars, tvars, keyVars, faults>>

Device == cfg.ports[next]
AtDevice == pc = "autostart" /\ next <= Len(cfg.ports)
Startable(d) == server[d] = Absent /\ PortMapping(d, cfg) # 0

AutoNext == next' = next + 1 /\ UNCHANGED <<file, cfg, pc, tvars>>

AutoSkip ==
    /\ AtDevice /\ ~Startable(Device) /\ AutoNext
    /\ UNCHANGED <<svars, keyVars, faults>>

AutoLoads ==
    /\ AtDevice /\ Startable(Device) /\ LoadContinues(Main)
    /\ UNCHANGED <<mvars, svars, tvars, faults>>

(* A key that does not parse is no error here: the server makes one up.     *)
AutoStarts ==
    /\ AtDevice /\ Startable(Device) /\ AutoNext
    /\ \E data \in Torn..generated :
          LoadReturns(Main, data) /\ server' = [server EXCEPT ![Device] = data]
    /\ booted' = booted \cup {Device}
    /\ UNCHANGED <<adding, faults>>

AutoFails ==
    /\ AtDevice /\ Startable(Device) /\ AutoNext /\ LoadFails(Main) /\ Fault
    /\ UNCHANGED svars

AutoDone_TunnelsFirst == pc = "autostart"                   \* Mutant
AutoDone == pc = "autostart" /\ next > Len(cfg.ports)

(* The tunnels run in goroutines of their own, and so does the HTTP server. *)
StartTunnels ==
    /\ AutoDone /\ tun = [t \in Tids |-> "off"]
    /\ tun' = [t \in Tids |-> IF t \in Started(cfg) THEN "dial" ELSE "off"]
    /\ pc' = (IF next > Len(cfg.ports) THEN "serving" ELSE pc)
    /\ UNCHANGED <<file, cfg, next, svars, todo, proxy, holder, keyVars, faults>>

-----------------------------------------------------------------------------
(* HTTP requests, which are served to the end.  AddMapping holds pm.mu.     *)

Serving == pc \in {"serving", "stopping", "exiting"}

AddMapping(d) ==
    /\ Serving /\ adding = Unset /\ Startable(d) /\ adding' = d
    /\ UNCHANGED <<mvars, server, booted, tvars, keyVars, faults>>

AddLoads ==
    /\ adding # Unset /\ LoadContinues(Http)
    /\ UNCHANGED <<mvars, svars, tvars, faults>>

AddReturns ==
    /\ adding # Unset /\ adding' = Unset
    /\ \/ /\ \E data \in Torn..generated :
                LoadReturns(Http, data) /\ server' = [server EXCEPT ![adding] = data]
          /\ UNCHANGED faults
       \/ LoadFails(Http) /\ Fault /\ UNCHANGED server
    /\ UNCHANGED <<mvars, booted, tvars>>

RemoveMapping(d) ==
    /\ Serving /\ adding = Unset /\ server[d] # Absent
    /\ server' = [server EXCEPT ![d] = Absent] /\ booted' = booted \ {d}
    /\ UNCHANGED <<mvars, adding, tvars, keyVars, faults>>

-----------------------------------------------------------------------------
(* connect() of tunnel t.                                                   *)

Goto(t, at, ports) ==
    /\ tun' = [tun EXCEPT ![t] = at] /\ todo' = [todo EXCEPT ![t] = ports]

AfterError_GivesUp == "off"                                 \* Mutant
AfterError == "dial"

Released(h, t) == [p \in DOMAIN h |-> IF h[p] = t THEN Free ELSE h[p]]

IsLocal(t) == Config(t).kind = "local_forward"

Connect(t) ==
    /\ tun[t] = "dial"
    /\ Goto(t, IF IsProxy(Config(t), cfg) THEN "key" ELSE "listen", BindsOf(t))
    /\ UNCHANGED <<mvars, svars, proxy, holder, keyVars, faults>>

KeyLoads(t) ==
    /\ tun[t] = "key" /\ cfg.authType = "password" /\ LoadContinues(Caller(t))
    /\ UNCHANGED <<mvars, svars, tvars, faults>>

KeyReturns(t) ==
    /\ tun[t] = "key" /\ cfg.authType = "password"
    /\ \E data \in Torn..generated :
          LoadReturns(Caller(t), data) /\ proxy' = [proxy EXCEPT ![t] = data]
    /\ Goto(t, "listen", todo[t])
    /\ UNCHANGED <<mvars, svars, holder, faults>>

KeyFails(t) ==
    /\ tun[t] = "key" /\ Goto(t, AfterError, {})
    /\ \/ cfg.authType # "password" /\ UNCHANGED <<keyVars, faults>>
       \/ cfg.authType = "password" /\ LoadFails(Caller(t)) /\ Fault
    /\ UNCHANGED <<mvars, svars, proxy, holder>>

(* In the order of cfg.Ports; no property here tells one order from another.*)
First(ports) == CHOOSE p \in ports : TRUE

(* A failed bind is tried once more, but for a local port.                  *)
Listen(t) ==
    LET p == First(todo[t])
        rest == todo[t] \ {p}
    IN  /\ tun[t] \in {"listen", "again"}
        /\ \/ /\ holder[p] = Free /\ holder' = [holder EXCEPT ![p] = t]
              /\ Goto(t, IF rest = {} THEN "up" ELSE "listen", rest)
           \/ /\ holder[p] # Free /\ tun[t] = "listen" /\ ~IsLocal(t)
              /\ Goto(t, "again", todo[t]) /\ UNCHANGED holder
           \/ /\ holder[p] # Free /\ (tun[t] = "again" \/ IsLocal(t))
              /\ holder' = Released(holder, t) /\ Goto(t, AfterError, {})
        /\ UNCHANGED <<mvars, svars, proxy, keyVars, faults>>

(* The host may hold the ports for a connection that is gone, until its TCP *)
(* notices.                                                                 *)
Left(h, gone, stale) ==
    [p \in DOMAIN h |-> IF h[p] \notin gone THEN h[p]
                        ELSE IF h[p] \in stale /\ p[1] # Here THEN -h[p] ELSE Free]

LinkLost(t) ==
    /\ tun[t] \in {"listen", "up"} /\ ~IsLocal(t) /\ Fault
    /\ \E stale \in SUBSET {t} : holder' = Left(holder, {t}, stale)
    /\ Goto(t, "dial", {})
    /\ UNCHANGED <<mvars, svars, proxy, keyVars>>

HostNotices(t) ==
    /\ \E p \in DOMAIN holder : holder[p] = -t
    /\ holder' = Released(holder, -t)
    /\ UNCHANGED <<mvars, svars, tun, todo, proxy, keyVars, faults>>

-----------------------------------------------------------------------------
(* The end of the process.                                                  *)

Interrupt ==
    /\ pc = "serving" /\ pc' = "stopping" /\ next' = 1
    /\ UNCHANGED <<file, cfg, svars, tvars, keyVars, faults>>

StopTunnel ==                                   \* Stop waits for connect()
    /\ pc = "stopping" /\ next \in Tids /\ loading[Caller(next)] = Idle
    /\ next' = next + 1
    /\ Goto(next, "off", {}) /\ holder' = Released(holder, next)
    /\ proxy' = [proxy EXCEPT ![next] = Absent]
    /\ UNCHANGED <<file, cfg, pc, svars, keyVars, faults>>

Shutdown ==
    /\ pc = "stopping" /\ next \notin Tids /\ adding = Unset /\ pc' = "exiting"
    /\ server' = [d \in Name |-> Absent] /\ booted' = {}
    /\ UNCHANGED <<file, cfg, next, adding, tvars, keyVars, faults>>

Ends ==
    /\ pc' = "down" /\ LoadsEnd
    /\ server' = [d \in Name |-> Absent] /\ booted' = {} /\ adding' = Unset
    /\ tun' = [t \in Tids |-> "off"] /\ todo' = [t \in Tids |-> {}]
    /\ proxy' = [t \in Tids |-> Absent]
    /\ UNCHANGED <<file, cfg, next>>

Exit == pc = "exiting" /\ Ends /\ UNCHANGED <<holder, faults>>

Crash ==
    /\ pc # "down" /\ Ends /\ Fault
    /\ \E stale \in SUBSET Tids : holder' = Left(holder, Tids, stale)

-----------------------------------------------------------------------------
Boot == AutoSkip \/ AutoLoads \/ AutoStarts \/ AutoFails \/ StartTunnels
Stopping == StopTunnel \/ Shutdown \/ Exit
Mapping == AddLoads \/ AddReturns
Tunnel(t) == Connect(t) \/ KeyLoads(t) \/ KeyReturns(t) \/ KeyFails(t) \/ Listen(t)

Next ==
    \/ Start \/ Boot \/ Interrupt \/ Stopping \/ Crash \/ Mapping
    \/ \E d \in Name : AddMapping(d) \/ RemoveMapping(d)
    \/ \E t \in Tids : Tunnel(t) \/ LinkLost(t) \/ HostNotices(t)

Spec == Init /\ [][Next]_vars

(* Goroutines that can run do, a dial is answered some time, and so does a  *)
(* host notice that a connection is gone.  Nobody need start or interrupt   *)
(* the process or send it a request.                                        *)
Fairness ==
    /\ WF_vars(Boot) /\ WF_vars(Stopping) /\ WF_vars(Mapping)
    /\ \A t \in Tids : WF_vars(Tunnel(t)) /\ WF_vars(HostNotices(t))

FairSpec == Spec /\ Fairness

-----------------------------------------------------------------------------
TypeOK ==
    /\ pc \in {"down", "autostart", "serving", "stopping", "exiting"}
    /\ next \in Nat \ {0}
    /\ keyFile \in Int /\ generated \in Nat
    /\ loading \in [Callers -> [at : {"idle", "generated", "truncated"}, key : Nat]]
    /\ server \in [Name -> Int] /\ booted \subseteq Name /\ adding \in Name \cup {Unset}
    /\ tun \in [Tids -> {"off", "dial", "key", "listen", "again", "up"}]
    /\ proxy \in [Tids -> Int]
    /\ faults \in 0..MaxFaults

(* Every endpoint shows one identity, and the next start will show it       *)
(* again: once AutoStart has started a server with a key that host_key      *)
(* holds, every other server and proxy of the process shows it and the file *)
(* keeps it, whoever else loads or generates a key, in whatever order       *)
(* (server.go:64-92, reverse.go:155, main.go:38-59).                        *)
SharedIdentity ==
    \A d \in booted : server[d] > 0 =>
        /\ keyFile = server[d]
        /\ \A e \in Name : server[e] \in {Absent, server[d]}
        /\ \A t \in Tids : proxy[t] \in {Absent, server[d]}

(* The scripts that clear ports before a restart trust tunnel-ports to name *)
(* what the gateway binds: it names every port that any tunnel holds, and   *)
(* nothing else once all tunnels are up (tunnel-ports/main.go:59-119,       *)
(* main.go:44-68).                                                          *)
Bound == {p \in DOMAIN holder : holder[p] \in Tids}
ListedIsBound ==
    /\ Bound \subseteq Listed(file)
    /\ pc = "serving" /\ (\A t \in Started(cfg) : tun[t] = "up") => Bound = Listed(file)

(* A tunnel keeps trying: it comes up, whatever failed and whatever earlier *)
(* connections, of this process or one that crashed, have left behind on    *)
(* its host, if no other tunnel wants one of its ports (reverse.go:86-101,  *)
(* 168-187; localforward.go:64-87).                                         *)
Alone(t) == \A u \in Started(cfg) \ {t} : BindsOf(t) \cap BindsOf(u) = {}
CanServe(t) == IsProxy(Config(t), cfg) => cfg.authType = "password"
TunnelsComeUp ==
    \A t \in Tids :
        tun[t] = "dial" /\ Alone(t) /\ CanServe(t) ~> tun[t] = "up" \/ pc # "serving"

-----------------------------------------------------------------------------
(* What the documents say and the code does not guarantee.                  *)

(* .zread/wiki/drafts/16-per-port-ssh-server-creation-and-session-bridging.md:121:*)
(* all SSH servers "present the same host identity regardless of port".  A  *)
(* torn host_key is neither replaced nor refused: each server makes up a    *)
(* key (server.go:66-69, 109).                                              *)
SameIdentity ==
    \A d \in Name : server[d] # Torn

(* reverse.go:256-257: killRemotePortHolders "clears residual processes     *)
(* holding each given remote port".  It finds none (reverse.go:262).        *)
PortsAreCleared ==
    \A t \in Tids : tun[t] = "listen" /\ Alone(t) /\ ~IsLocal(t) =>
        \A p \in BindsOf(t) : holder[p] >= Free

(* .zread/wiki/drafts/3-configuration-reference.md:129: -http-port          *)
(* overrides the port; the default target of reverse_tunnel stays what the  *)
(* file said (main.go:27-29, config.go:204-206).                            *)
TunnelReachesHttp ==
    cfg.reverse.host # Unset /\ file.reverse.localPort = Unset
        => cfg.reverse.localPort = cfg.httpPort
=============================================================================
