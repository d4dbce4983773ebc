--------------------------- MODULE GatewayProofs ----------------------------
(***************************************************************************)
(* Proofs about Gateway: every endpoint shows the identity that host_key   *)
(* holds, and tunnel-ports names the ports that the tunnels bind, for any  *)
(* configurations, any flag and any number of faults; and about the bridge *)
(* of a proxied connection: its users are told the status of the command.  *)
(***************************************************************************)
EXTENDS Gateway, ProxyBridge, SequenceTheorems, TLAPS

KeyTypes ==
    /\ keyFile \in Int /\ generated \in Nat
    /\ loading \in [Callers -> [at : {"idle", "generated", "truncated"}, key : Nat]]

Busy(a) == loading[a].at # "idle"

(* A key that is being written has a number.                                *)
KeyInv == KeyTypes /\ \A a \in Callers : Busy(a) => loading[a].key > 0

(* Until the server stage nobody but main() is at work, and main() loads a  *)
(* key only for a server that does not run yet.                             *)
Booting == pc \in {"down", "autostart"}

Quiet ==
    /\ pc = "down" => booted = {} /\ \A d \in Name : server[d] = Absent
    /\ Booting => adding = Unset /\ \A t \in Tids : tun[t] = "off" /\ proxy[t] = Absent
    /\ Busy(Main) => AtDevice /\ Startable(Device)
    /\ \A a \in Callers \ {Main} : Busy(a) => ~Booting

Running ==
    /\ \A d \in booted : server[d] # Absent
    /\ adding # Unset => server[adding] = Absent

(* In AutoStart the first server that starts settles what the others show.  *)
BootKey ==
    pc = "autostart" =>
        \A d \in Name : server[d] # Absent => server[d] = keyFile /\ ~Busy(Main)

Shown(d) ==
    /\ keyFile = server[d] /\ \A a \in Callers : ~Busy(a)
    /\ \A e \in Name : server[e] \in {Absent, server[d]}
    /\ \A t \in Tids : proxy[t] \in {Absent, server[d]}

ServeKey == ~Booting => \A d \in booted : server[d] > 0 => Shown(d)

(* What a tunnel has bound it holds, until it dials again.                  *)
Derived == file \in Files /\ \E flag \in Flags : cfg = Loaded(file, flag)

Holding ==
    /\ holder \in [Ports(cfg) -> Int] /\ DOMAIN todo = Tids
    /\ \A t \in Tids :
          /\ tun[t] # "off" => t \in Started(cfg)
          /\ tun[t] = "key" => BindsOf(t) \subseteq todo[t]
          /\ tun[t] \in {"listen", "again"} =>
                \A p \in BindsOf(t) : p \in todo[t] \/ holder[p] = t
          /\ tun[t] = "up" => \A p \in BindsOf(t) : holder[p] = t

IInv ==
    /\ TypeOK /\ Derived
    /\ KeyInv /\ Quiet /\ Running /\ BootKey /\ ServeKey
    /\ Holding

-----------------------------------------------------------------------------
(* What a configuration keeps when defaults and the flag are applied.       *)

Kept(c, f) == c.ports = f.ports /\ Len(c.list) = Len(f.list)
Same(c, d) ==
    /\ c.reverse = d.reverse /\ c.adb = d.adb /\ c.serial = d.serial
    /\ c.list = d.list /\ c.ports = d.ports /\ c.basePort = d.basePort
Fields == {"reverse", "adb", "serial", "list", "ports", "basePort"}

LEMMA FillKeeps ==
    ASSUME NEW c, NEW f \in DOMAIN c, NEW defaults, f \notin DOMAIN defaults
    PROVE  Fill(c, defaults)[f] = c[f]
BY DEF Fill

LEMMA DefaultsKeep ==
    ASSUME NEW f \in Files
    PROVE  /\ ApplyDefaults(f).ports = f.ports
           /\ ApplyDefaults(f).list \in Seq({ApplyDefaults(f).list[i] :
                                                i \in DOMAIN ApplyDefaults(f).list})
           /\ Len(ApplyDefaults(f).list) = Len(f.list)
           /\ Fields \subseteq DOMAIN ApplyDefaults(f)
<1> DEFINE c == Fill(f, Settings)
           G(t) == FillTunnel(t, ListDefaults(t))
           l == [i \in DOMAIN f.list |-> G(f.list[i])]
<1>1. Fields \subseteq DOMAIN f /\ DOMAIN c = DOMAIN f
  BY GatewayAssumption DEF Fill, Fields
<1>2. "ports" \notin DOMAIN Settings /\ "list" \notin DOMAIN Settings BY DEF Settings
<1>3. c.ports = f.ports /\ c.list = f.list
  BY <1>1, <1>2, FillKeeps DEF Fields
<1>4. DOMAIN ApplyDefaults(f) = DOMAIN f /\ ApplyDefaults(f).ports = c.ports
      /\ ApplyDefaults(f).list = [i \in DOMAIN c.list |-> G(c.list[i])]
  BY <1>1 DEF ApplyDefaults, Fields
<1>5. f.list \in Seq({f.list[i] : i \in DOMAIN f.list}) BY GatewayAssumption
<1>6. Len(f.list) \in Nat /\ DOMAIN f.list = 1..Len(f.list) BY <1>5
<1>7. l \in Seq({l[i] : i \in DOMAIN l}) /\ Len(l) = Len(f.list)
  <2> HIDE DEF G
  <2> QED BY <1>6
<1> QED BY <1>1, <1>3, <1>4, <1>7

LEMMA FlagKeeps ==
    ASSUME NEW f \in Files, NEW flag
    PROVE  Same(Loaded(f, flag), ApplyDefaults(f))
<1>1. Fields \subseteq DOMAIN ApplyDefaults(f) BY DefaultsKeep
<1> QED BY <1>1 DEF Loaded, Same, Fields

-----------------------------------------------------------------------------
(* tunnel-ports repeats the derivation of the gateway, with the same ports. *)

LEMMA SeenIsForwarded ==
    ASSUME NEW c
    PROVE  SeenPorts(c) = SerialSSHForwards(c)
BY DEF SeenPorts, SerialSSHForwards, PortMapping

LEMMA TargetIsBound ==
    ASSUME NEW t, NEW c
    PROVE  BuildTarget(t, c) = Binds(t, c)
<1>1. CASE t.kind = "local_forward"
  <2>1. BuildTarget(t, c) = {t.host} \X {} \cup {Here} \X {t.localPort}
    BY <1>1 DEF BuildTarget
  <2>2. {t.host} \X {} = {} OBVIOUS
  <2>3. {Here} \X {t.localPort} = {<<Here, t.localPort>>} OBVIOUS
  <2> QED BY <1>1, <2>1, <2>2, <2>3 DEF Binds
<1>2. CASE t.kind = "serial_ssh"
  <2>1. BuildTarget(t, c) = {t.host} \X SeenPorts(c) \cup {Here} \X {}
    BY <1>2 DEF BuildTarget
  <2>2. {Here} \X {} = {} OBVIOUS
  <2> QED BY <1>2, <2>1, <2>2, SeenIsForwarded DEF Binds
<1>3. CASE t.kind \notin {"local_forward", "serial_ssh"}
  <2>1. BuildTarget(t, c) = {t.host} \X {t.remotePort} \cup {Here} \X {}
    BY <1>3 DEF BuildTarget
  <2>2. {Here} \X {} = {} OBVIOUS
  <2>3. {t.host} \X {t.remotePort} = {<<t.host, t.remotePort>>} OBVIOUS
  <2> QED BY <1>3, <2>1, <2>2, <2>3 DEF Binds
<1> QED BY <1>1, <1>2, <1>3

(* The tunnels in the order of main() are those tunnel-ports goes through.  *)
LEMMA TunnelsAreNamed ==
    ASSUME NEW c, c.list \in Seq({c.list[i] : i \in DOMAIN c.list})
    PROVE  /\ {Tunnels(c)[i] : i \in DOMAIN Tunnels(c)}
                  = Named(c) \cup {c.list[i] : i \in DOMAIN c.list}
           /\ DOMAIN Tunnels(c) = 1..(3 + Len(c.list))
<1> DEFINE s == [c.serial EXCEPT !.kind = "serial_ssh"]
           first == <<c.reverse, c.adb, s>>
           T == {c.reverse, c.adb, s} \cup {c.list[i] : i \in DOMAIN c.list}
<1>1. first \in Seq(T) /\ Len(first) = 3 OBVIOUS
<1>2. c.list \in Seq(T) /\ Len(c.list) \in Nat /\ DOMAIN c.list = 1..Len(c.list)
  OBVIOUS
<1>3. /\ Len(first \o c.list) = 3 + Len(c.list)
      /\ first \o c.list \in Seq(T)
      /\ \A i \in 1..(3 + Len(c.list)) :
            (first \o c.list)[i] = IF i <= 3 THEN first[i] ELSE c.list[i - 3]
  <2> HIDE DEF first, T
  <2>1. /\ first \o c.list \in Seq(T)
        /\ Len(first \o c.list) = Len(first) + Len(c.list)
        /\ \A i \in 1..(Len(first) + Len(c.list)) :
              (first \o c.list)[i]
                  = IF i <= Len(first) THEN first[i] ELSE c.list[i - Len(first)]
    BY <1>1, <1>2, ConcatProperties, Zenon
  <2> QED BY <1>1, <2>1
<1>4. Tunnels(c) = first \o c.list BY DEF Tunnels
<1>5. DOMAIN Tunnels(c) = 1..(3 + Len(c.list))
  <2> HIDE DEF first, T
  <2> QED BY <1>3, <1>4
<1>6. \A i \in DOMAIN Tunnels(c) : Tunnels(c)[i] \in T
  <2> HIDE DEF first, T
  <2> QED BY <1>3, <1>4
<1>7. \A t \in T : \E i \in DOMAIN Tunnels(c) : Tunnels(c)[i] = t
  <2> SUFFICES ASSUME NEW t \in T PROVE \E i \in DOMAIN Tunnels(c) : Tunnels(c)[i] = t
    OBVIOUS
  <2>1. CASE t \in {c.reverse, c.adb, s}
    <3>1. PICK i \in 1..3 : first[i] = t BY <2>1
    <3>2. i \in 1..(3 + Len(c.list)) /\ i <= 3 BY <1>2
    <3> HIDE DEF first, T
    <3> QED BY <1>3, <1>4, <1>5, <3>1, <3>2
  <2>2. CASE \E j \in DOMAIN c.list : t = c.list[j]
    <3>1. PICK j \in 1..Len(c.list) : t = c.list[j] BY <1>2, <2>2
    <3>2. j + 3 \in 1..(3 + Len(c.list)) /\ ~(j + 3 <= 3) /\ (j + 3) - 3 = j BY <1>2
    <3> HIDE DEF first, T
    <3> QED BY <1>3, <1>4, <1>5, <3>1, <3>2
  <2> QED BY <2>1, <2>2
<1>8. {Tunnels(c)[i] : i \in DOMAIN Tunnels(c)} = T
  <2> HIDE DEF T
  <2> QED BY <1>6, <1>7
<1>9. Named(c) = {c.reverse, c.adb, s} BY DEF Named
<1> QED BY <1>5, <1>8, <1>9

LEMMA ListedIsPorts ==
    ASSUME NEW f \in Files, NEW flag
    PROVE  /\ Listed(f) = Ports(Loaded(f, flag))
           /\ DOMAIN Tunnels(Loaded(f, flag)) \subseteq Tids
<1> DEFINE c == ApplyDefaults(f)
           d == Loaded(f, flag)
           all == Named(c) \cup {c.list[i] : i \in DOMAIN c.list}
<1>1. Same(d, c) BY FlagKeeps
<1>2. Tunnels(d) = Tunnels(c) BY <1>1 DEF Same, Tunnels
<1>3. \A t : Binds(t, d) = Binds(t, c)
  BY <1>1 DEF Same, Binds, SerialSSHForwards, Devices, PortMapping
<1>4. /\ {Tunnels(c)[i] : i \in DOMAIN Tunnels(c)} = all
      /\ DOMAIN Tunnels(c) = 1..(3 + Len(c.list))
  BY TunnelsAreNamed, DefaultsKeep
<1>5. DOMAIN Tunnels(d) \subseteq Tids
  BY <1>2, <1>4, DefaultsKeep, GatewayAssumption
<1>6. Listed(f) = UNION {BuildTarget(t, c) : t \in {u \in all : u.host # Unset}}
  BY DEF Listed
<1>7. Listed(f) = UNION {Binds(t, c) : t \in {u \in all : u.host # Unset}}
  BY <1>6, TargetIsBound
<1>8. Started(d) = {i \in DOMAIN Tunnels(c) : /\ Tunnels(c)[i].host # Unset
                                             /\ Binds(Tunnels(c)[i], c) # {}}
  BY <1>2, <1>3 DEF Started
<1>9. Ports(d) = UNION {Binds(Tunnels(c)[i], c) : i \in Started(d)}
  BY <1>2, <1>3 DEF Ports
<1> HIDE DEF c, d, all
<1>10. ASSUME NEW p \in Listed(f) PROVE p \in Ports(d)
  <2>1. PICK t \in all : t.host # Unset /\ p \in Binds(t, c) BY <1>7, <1>10
  <2>2. PICK i \in DOMAIN Tunnels(c) : t = Tunnels(c)[i] BY <1>4
  <2>3. i \in Started(d) BY <1>8, <2>1, <2>2
  <2> QED BY <1>9, <2>1, <2>2, <2>3
<1>11. ASSUME NEW p \in Ports(d) PROVE p \in Listed(f)
  <2>1. PICK i \in Started(d) : p \in Binds(Tunnels(c)[i], c) BY <1>9, <1>11
  <2>2. Tunnels(c)[i] \in all /\ Tunnels(c)[i].host # Unset BY <1>4, <1>8, <2>1
  <2> QED BY <1>7, <2>1, <2>2
<1> QED BY <1>5, <1>10, <1>11 DEF d

LEMMA DeviceIsName ==
    ASSUME Derived, TypeOK, AtDevice
    PROVE  Device \in Name
<1>1. PICK flag \in Flags : cfg = Loaded(file, flag) BY DEF Derived
<1>2. cfg.ports = file.ports BY <1>1, DefaultsKeep, FlagKeeps DEF Derived, Same
<1>3. cfg.ports \in Seq(Name) BY <1>2, GatewayAssumption DEF Derived, Name
<1>4. next \in 1..Len(cfg.ports) BY <1>3 DEF AtDevice, TypeOK
<1> QED BY <1>3, <1>4, ElementOfSeq DEF Device

-----------------------------------------------------------------------------
(* What the operations of HostKey do to the caller and to the others.       *)

LEMMA Callees ==
    /\ Main \in Callers /\ Http \in Callers /\ Main # Http
    /\ \A t \in Tids : Caller(t) \in Callers /\ Caller(t) # Main
BY GatewayAssumption DEF Main, Http, Caller

Others(a) == \A b \in Callers \ {a} : loading'[b] = loading[b]

LEMMA SetFacts ==
    ASSUME KeyTypes, NEW a \in Callers, NEW how \in {"idle", "generated", "truncated"},
           NEW key \in Nat, Set(a, how, key)
    PROVE  /\ loading' \in [Callers -> [at : {"idle", "generated", "truncated"}, key : Nat]]
           /\ loading'[a] = [at |-> how, key |-> key] /\ Others(a)
BY DEF KeyTypes, Set, Others

LEMMA ContinueFacts ==
    ASSUME KeyInv, NEW a \in Callers, LoadContinues(a)
    PROVE  /\ KeyInv' /\ Others(a) /\ Busy(a)'
           /\ ~Busy(a) => keyFile = Absent
<1> USE DEF KeyInv
<1>1. CASE Generate(a)
  <2>1. generated + 1 \in Nat BY DEF KeyTypes
  <2>2. /\ loading' \in [Callers -> [at : {"idle", "generated", "truncated"}, key : Nat]]
        /\ loading'[a] = [at |-> "generated", key |-> generated + 1] /\ Others(a)
    BY <1>1, <2>1, SetFacts DEF Generate
  <2>3. KeyTypes' BY <1>1, <2>1, <2>2 DEF Generate, KeyTypes
  <2>4. generated + 1 > 0 BY DEF KeyTypes
  <2> QED BY <1>1, <2>2, <2>3, <2>4 DEF Generate, Busy, Others, Exists
<1>2. CASE Truncate(a)
  <2>1. loading[a].key \in Nat BY DEF KeyTypes
  <2>2. /\ loading' \in [Callers -> [at : {"idle", "generated", "truncated"}, key : Nat]]
        /\ loading'[a] = [at |-> "truncated", key |-> loading[a].key] /\ Others(a)
    BY <1>2, <2>1, SetFacts DEF Truncate
  <2>3. KeyTypes' BY <1>2, <2>2 DEF Truncate, KeyTypes, Torn
  <2> QED BY <1>2, <2>2, <2>3 DEF Truncate, Busy, Others
<1> QED BY <1>1, <1>2 DEF LoadContinues

LEMMA ReturnFacts ==
    ASSUME KeyInv, NEW a \in Callers, NEW data \in Torn..generated, LoadReturns(a, data)
    PROVE  /\ KeyInv' /\ Others(a) /\ ~Busy(a)'
           /\ data \in Int /\ data # Absent /\ keyFile' = data
           /\ ~Busy(a) => keyFile = data
<1> USE DEF KeyInv
<1>0. data \in Int BY DEF KeyTypes, Torn
<1>1. CASE ReadKey(a, data)
  BY <1>0, <1>1 DEF ReadKey, KeyTypes, Busy, Others, Exists, keyVars
<1>2. CASE WriteKey(a, data)
  <2>1. /\ loading' \in [Callers -> [at : {"idle", "generated", "truncated"}, key : Nat]]
        /\ loading'[a] = [at |-> "idle", key |-> 0] /\ Others(a)
    BY <1>2, SetFacts DEF WriteKey, Absent
  <2>2. Busy(a) /\ data = loading[a].key /\ data > 0
    BY <1>2 DEF WriteKey, Busy
  <2>3. KeyTypes' BY <1>0, <1>2, <2>1 DEF WriteKey, KeyTypes
  <2> QED BY <1>0, <1>2, <2>1, <2>2, <2>3 DEF WriteKey, Busy, Others, Absent
<1> QED BY <1>1, <1>2 DEF LoadReturns

LEMMA FailFacts ==
    ASSUME KeyInv, NEW a \in Callers, LoadFails(a)
    PROVE  KeyInv' /\ Others(a) /\ ~Busy(a)' /\ keyFile' = keyFile
<1>1. /\ loading' \in [Callers -> [at : {"idle", "generated", "truncated"}, key : Nat]]
      /\ loading'[a] = [at |-> "idle", key |-> 0] /\ Others(a)
  BY SetFacts DEF KeyInv, LoadFails, Absent
<1>2. KeyTypes' BY <1>1 DEF LoadFails, KeyInv, KeyTypes
<1> QED BY <1>1, <1>2 DEF LoadFails, KeyInv, Busy, Others

LEMMA EndFacts ==
    ASSUME KeyInv, LoadsEnd
    PROVE  KeyInv' /\ keyFile' = keyFile /\ \A a \in Callers : ~Busy(a)'
BY DEF KeyInv, KeyTypes, LoadsEnd, Busy, Idle, Absent, Torn

-----------------------------------------------------------------------------
LEMMA InitInv == Init => IInv
<1> SUFFICES ASSUME Init PROVE IInv
  OBVIOUS
<1> USE GatewayAssumption DEF Init
<1>0. /\ loading = [a \in Callers |-> [at |-> "idle", key |-> 0]]
      /\ keyFile = 0 /\ generated = 0
  BY DEF KeyInit, Idle, Absent
<1>1. TypeOK BY <1>0 DEF TypeOK, Absent
<1>2. Derived BY DEF Derived
<1>3. KeyInv BY <1>0 DEF KeyInv, KeyTypes, Busy
<1>4. Quiet BY <1>0, Callees DEF Quiet, Busy
<1>5. Running BY DEF Running
<1>6. BootKey /\ ServeKey BY DEF BootKey, ServeKey, Booting
<1>7. Holding BY DEF Holding, Free
<1> QED BY <1>1, <1>2, <1>3, <1>4, <1>5, <1>6, <1>7 DEF IInv

Loads == AutoLoads \/ AddLoads \/ \E t \in Tids : KeyLoads(t)

LEMMA KeysKept ==
    ASSUME IInv, Next
    PROVE  KeyInv'
<1> USE DEF IInv
<1>1. CASE Loads
  BY <1>1, Callees, ContinueFacts DEF Loads, AutoLoads, AddLoads, KeyLoads
<1>2. CASE AutoStarts \/ \E t \in Tids : KeyReturns(t)
  BY <1>2, Callees, ReturnFacts DEF AutoStarts, KeyReturns
<1>3. CASE AddReturns \/ AutoFails
  BY <1>3, Callees, ReturnFacts, FailFacts DEF AddReturns, AutoFails
<1>4. ASSUME UNCHANGED keyVars PROVE KeyInv'
  BY <1>4 DEF keyVars, KeyInv, KeyTypes, Busy
<1>5. ASSUME NEW t \in Tids, KeyFails(t) PROVE KeyInv'
  BY <1>4, <1>5, Callees, FailFacts DEF KeyFails
<1>6. CASE Exit \/ Crash
  BY <1>6, EndFacts DEF Exit, Crash, Ends
<1>7. CASE \/ Start \/ AutoSkip \/ StartTunnels \/ Interrupt \/ StopTunnel \/ Shutdown
           \/ \E d \in Name : AddMapping(d) \/ RemoveMapping(d)
           \/ \E t \in Tids : Connect(t) \/ Listen(t) \/ LinkLost(t) \/ HostNotices(t)
  BY <1>4, <1>7 DEF Start, AutoSkip, StartTunnels, Interrupt, StopTunnel, Shutdown, AddMapping,
        RemoveMapping, Connect, Listen, LinkLost, HostNotices
<1> QED
  BY <1>1, <1>2, <1>3, <1>5, <1>6, <1>7 DEF Next, Boot, Stopping, Mapping, Tunnel, Loads

LEMMA DerivedKept ==
    ASSUME Derived, Next
    PROVE  Derived' /\ UNCHANGED <<file, cfg>>
<1>1. UNCHANGED <<file, cfg>>
  BY DEF Next, Boot, Stopping, Mapping, Tunnel, Start, AutoSkip, AutoLoads, AutoStarts, AutoFails,
         AutoNext, StartTunnels, Interrupt, StopTunnel, Shutdown, Exit, Crash, Ends, AddLoads,
         AddReturns, AddMapping, RemoveMapping, Connect, KeyLoads, KeyReturns, KeyFails,
         Listen, LinkLost, HostNotices, mvars
<1> QED BY <1>1 DEF Derived

-----------------------------------------------------------------------------
(* The types.                                                               *)

LEMMA FaultCounted ==
    ASSUME TypeOK, faults' = faults \/ Fault
    PROVE  faults' \in 0..MaxFaults
BY GatewayAssumption DEF TypeOK, Fault

LEMMA GotoTyped ==
    ASSUME TypeOK, NEW t \in Tids, NEW step \in {"off", "dial", "key", "listen", "again", "up"},
           NEW ports, Goto(t, step, ports)
    PROVE  tun' \in [Tids -> {"off", "dial", "key", "listen", "again", "up"}]
BY DEF TypeOK, Goto

LEMMA TypesKept ==
    ASSUME IInv, Next
    PROVE  TypeOK'
<1> USE DEF IInv
<1>k. /\ keyFile' \in Int /\ generated' \in Nat
      /\ loading' \in [Callers -> [at : {"idle", "generated", "truncated"}, key : Nat]]
  BY KeysKept DEF KeyInv, KeyTypes
<1>t. TypeOK OBVIOUS
<1>1. CASE Start \/ Interrupt
  BY <1>k, <1>1 DEF Start, Interrupt, TypeOK, svars, tvars
<1>2. CASE AutoSkip
  BY <1>k, <1>2 DEF AutoSkip, AutoNext, TypeOK, svars, tvars
<1>3. CASE Loads
  BY <1>k, <1>3 DEF Loads, AutoLoads, AddLoads, KeyLoads, TypeOK, mvars, svars, tvars
<1>4. CASE AutoStarts
  <2>1. Device \in Name BY <1>4, DeviceIsName DEF AutoStarts
  <2>2. PICK data \in Torn..generated :
           LoadReturns(Main, data) /\ server' = [server EXCEPT ![Device] = data]
    BY <1>4 DEF AutoStarts
  <2>3. data \in Int BY <2>2, Callees, ReturnFacts
  <2>4. server' \in [Name -> Int] BY <2>2, <2>3 DEF TypeOK
  <2>5. booted' \subseteq Name BY <1>4, <2>1 DEF AutoStarts, TypeOK
  <2> QED BY <1>k, <1>4, <2>4, <2>5 DEF AutoStarts, AutoNext, TypeOK, tvars
<1>5. CASE AutoFails
  BY <1>k, <1>5, FaultCounted DEF AutoFails, AutoNext, TypeOK, svars, tvars
<1>6. CASE StartTunnels
  BY <1>k, <1>6 DEF StartTunnels, TypeOK, svars
<1>7. ASSUME NEW d \in Name, AddMapping(d) \/ RemoveMapping(d) PROVE TypeOK'
  <2>1. server' \in [Name -> Int] BY <1>7 DEF AddMapping, RemoveMapping, TypeOK, Absent
  <2>2. booted' \subseteq Name BY <1>7 DEF AddMapping, RemoveMapping, TypeOK
  <2>3. adding' \in Name \cup {Unset} BY <1>7 DEF AddMapping, RemoveMapping, TypeOK
  <2> QED BY <1>k, <1>7, <2>1, <2>2, <2>3 DEF AddMapping, RemoveMapping, TypeOK, mvars, tvars
<1>8. CASE AddReturns
  <2>1. server' \in [Name -> Int]
    <3>1. CASE UNCHANGED server BY <3>1 DEF TypeOK
    <3>2. CASE \E data \in Torn..generated :
                  LoadReturns(Http, data) /\ server' = [server EXCEPT ![adding] = data]
      BY <3>2, Callees, ReturnFacts DEF TypeOK
    <3> QED BY <1>8, <3>1, <3>2 DEF AddReturns
  <2>2. faults' \in 0..MaxFaults BY <1>8, FaultCounted DEF AddReturns
  <2> QED BY <1>k, <1>8, <2>1, <2>2 DEF AddReturns, TypeOK, mvars, tvars
<1>9. ASSUME NEW t \in Tids, Connect(t) \/ Listen(t) \/ LinkLost(t) \/ HostNotices(t)
      PROVE  TypeOK'
  <2>1. tun' \in [Tids -> {"off", "dial", "key", "listen", "again", "up"}]
    BY <1>9, GotoTyped DEF Connect, Listen, LinkLost, HostNotices, AfterError, TypeOK
  <2>2. faults' \in 0..MaxFaults
    BY <1>9, FaultCounted DEF Connect, Listen, LinkLost, HostNotices
  <2>3. UNCHANGED <<mvars, svars, proxy>>
    BY <1>9 DEF Connect, Listen, LinkLost, HostNotices
  <2> QED BY <1>k, <2>1, <2>2, <2>3 DEF TypeOK, mvars, svars
<1>10. ASSUME NEW t \in Tids, KeyReturns(t) \/ KeyFails(t) PROVE TypeOK'
  <2>1. tun' \in [Tids -> {"off", "dial", "key", "listen", "again", "up"}]
    BY <1>10, GotoTyped DEF KeyReturns, KeyFails, AfterError
  <2>2. faults' \in 0..MaxFaults BY <1>10, FaultCounted DEF KeyReturns, KeyFails
  <2>3. proxy' \in [Tids -> Int]
    <3>1. CASE KeyReturns(t)
      BY <3>1, Callees, ReturnFacts DEF KeyReturns, TypeOK
    <3>2. CASE KeyFails(t) BY <3>2 DEF KeyFails, TypeOK
    <3> QED BY <1>10, <3>1, <3>2
  <2>4. UNCHANGED <<mvars, svars>> BY <1>10 DEF KeyReturns, KeyFails
  <2> QED BY <1>k, <2>1, <2>2, <2>3, <2>4 DEF TypeOK, mvars, svars
<1>11. CASE StopTunnel
  <2>1. tun' \in [Tids -> {"off", "dial", "key", "listen", "again", "up"}]
    BY <1>11, GotoTyped DEF StopTunnel
  <2>2. proxy' \in [Tids -> Int] BY <1>11 DEF StopTunnel, TypeOK, Absent
  <2> QED BY <1>k, <1>11, <2>1, <2>2 DEF StopTunnel, TypeOK, svars
<1>12. CASE Shutdown
  BY <1>k, <1>12 DEF Shutdown, TypeOK, tvars, Absent
<1>13. CASE Exit \/ Crash
  <2>1. faults' \in 0..MaxFaults BY <1>13, FaultCounted DEF Exit, Crash
  <2> QED BY <1>k, <1>13, <2>1 DEF Exit, Crash, Ends, TypeOK, Absent
<1> QED
  BY <1>1, <1>2, <1>3, <1>4, <1>5, <1>6, <1>7, <1>8, <1>9, <1>10, <1>11, <1>12, <1>13
  DEF Next, Boot, Stopping, Mapping, Tunnel, Loads

-----------------------------------------------------------------------------
(* The tunnels: a bound port is kept until its tunnel dials again.          *)

Keeps(t) == \A p \in Ports(cfg) : holder[p] = t => holder'[p] = t
Lives(t) == tun'[t] \in {"off", "dial"} \/ (tun'[t] = tun[t] /\ todo'[t] = todo[t])

LEMMA BindsArePorts ==
    ASSUME NEW t \in Started(cfg)
    PROVE  BindsOf(t) \subseteq Ports(cfg)
BY DEF BindsOf, Config, Ports

(* Tunnels that stay where they are, or give up, and lose nothing.          *)
LEMMA HoldingStays ==
    ASSUME Holding, UNCHANGED cfg, NEW t \in Tids,
           tun[t] = "off" => tun'[t] = "off",
           Lives(t), tun'[t] = tun[t] /\ tun[t] \notin {"off", "dial", "key"} => Keeps(t)
    PROVE  /\ tun'[t] # "off" => t \in Started(cfg')
           /\ tun'[t] = "key" => BindsOf(t)' \subseteq todo'[t]
           /\ tun'[t] \in {"listen", "again"} =>
                \A p \in BindsOf(t)' : p \in todo'[t] \/ holder'[p] = t
           /\ tun'[t] = "up" => \A p \in BindsOf(t)' : holder'[p] = t
<1>1. BindsOf(t)' = BindsOf(t) BY DEF BindsOf, Config
<1>2. tun[t] # "off" => BindsOf(t) \subseteq Ports(cfg)
  BY BindsArePorts DEF Holding
<1> QED BY <1>1, <1>2 DEF Holding, Lives, Keeps

LEMMA ReleasedKeeps ==
    ASSUME Holding, UNCHANGED cfg, NEW u \in Int, holder' = Released(holder, u)
    PROVE  /\ holder' \in [Ports(cfg') -> Int]
           /\ \A t \in Tids : t # u => Keeps(t)
BY DEF Holding, Released, Free, Keeps

LEMMA LeftKeeps ==
    ASSUME Holding, UNCHANGED cfg, NEW gone \in SUBSET Tids, NEW stale \in SUBSET gone,
           holder' = Left(holder, gone, stale)
    PROVE  /\ holder' \in [Ports(cfg') -> Int]
           /\ \A t \in Tids \ gone : Keeps(t)
<1>1. \A p \in Ports(cfg) : holder[p] \in Int /\ -holder[p] \in Int BY DEF Holding
<1>2. holder' = [p \in Ports(cfg) |->
                    IF holder[p] \notin gone THEN holder[p]
                    ELSE IF holder[p] \in stale /\ p[1] # Here THEN -holder[p] ELSE 0]
  BY DEF Holding, Left, Free
<1> QED BY <1>1, <1>2 DEF Keeps

(* Connect, the key and Listen move one tunnel.                             *)
LEMMA Moves ==
    ASSUME Holding, UNCHANGED cfg, TypeOK, NEW u \in Tids,
           NEW step, NEW ports, Goto(u, step, ports),
           step # "off" => u \in Started(cfg),
           holder' \in [Ports(cfg) -> Int], \A t \in Tids \ {u} : Keeps(t),
           step = "key" => BindsOf(u) \subseteq ports,
           step \in {"listen", "again"} => \A p \in BindsOf(u) : p \in ports \/ holder'[p] = u,
           step = "up" => \A p \in BindsOf(u) : holder'[p] = u
    PROVE  Holding'
<1>1. DOMAIN todo' = Tids BY DEF Goto, Holding
<1>2. \A t \in Tids \ {u} : tun'[t] = tun[t] /\ todo'[t] = todo[t]
  BY DEF Goto, TypeOK, Holding
<1>3. tun'[u] = step /\ todo'[u] = ports BY DEF Goto, TypeOK, Holding
<1>4. BindsOf(u)' = BindsOf(u) BY DEF BindsOf, Config
<1>5. \A t \in Tids \ {u} :
        /\ tun'[t] # "off" => t \in Started(cfg')
        /\ tun'[t] = "key" => BindsOf(t)' \subseteq todo'[t]
        /\ tun'[t] \in {"listen", "again"} =>
              \A p \in BindsOf(t)' : p \in todo'[t] \/ holder'[p] = t
        /\ tun'[t] = "up" => \A p \in BindsOf(t)' : holder'[p] = t
  BY <1>2, HoldingStays DEF Lives
<1> QED BY <1>1, <1>3, <1>4, <1>5 DEF Holding

LEMMA AllDown ==
    ASSUME UNCHANGED cfg, tun' = [t \in Tids |-> "off"], todo' = [t \in Tids |-> {}],
           holder' \in [Ports(cfg) -> Int]
    PROVE  Holding'
BY DEF Holding

LEMMA HoldingKept ==
    ASSUME IInv, Next
    PROVE  Holding'
<1> USE DEF IInv
<1>c. UNCHANGED cfg BY DerivedKept
<1>h. holder \in [Ports(cfg) -> Int] /\ \A t \in Tids : holder' = holder => Keeps(t)
  BY DEF Holding, Keeps
<1>1. CASE UNCHANGED <<tun, todo, holder>>
  BY <1>1, <1>c DEF Holding, BindsOf, Config
<1>2. CASE StartTunnels
  <2>1. \A t \in Tids : tun'[t] \in {"dial", "off"} /\ (tun'[t] # "off" => t \in Started(cfg))
    BY <1>2 DEF StartTunnels
  <2> QED BY <1>2, <1>c, <2>1 DEF StartTunnels, Holding
<1>3. ASSUME NEW t \in Tids, Connect(t) PROVE Holding'
  <2>1. t \in Started(cfg) BY <1>3 DEF Connect, Holding
  <2> QED BY <1>3, <1>c, <1>h, <2>1, Moves DEF Connect
<1>4. ASSUME NEW t \in Tids, KeyReturns(t) \/ KeyFails(t) PROVE Holding'
  <2>1. t \in Started(cfg) /\ BindsOf(t) \subseteq todo[t]
    BY <1>4 DEF KeyReturns, KeyFails, Holding
  <2>2. holder' = holder BY <1>4 DEF KeyReturns, KeyFails
  <2>3. CASE Goto(t, "listen", todo[t]) BY <1>c, <1>h, <2>1, <2>2, <2>3, Moves
  <2>4. CASE Goto(t, "dial", {}) BY <1>c, <1>h, <2>1, <2>2, <2>4, Moves
  <2> QED BY <1>4, <2>3, <2>4 DEF KeyReturns, KeyFails, AfterError
<1>5. ASSUME NEW t \in Tids, Listen(t) PROVE Holding'
  <2> DEFINE p == First(todo[t])
             rest == todo[t] \ {p}
  <2>0. tun[t] \in {"listen", "again"} BY <1>5 DEF Listen
  <2>1. /\ t \in Started(cfg) /\ t \in Int /\ t # 0
        /\ \A q \in BindsOf(t) : q \in todo[t] \/ holder[q] = t
    BY <2>0, GatewayAssumption DEF Holding
  <2>2. BindsOf(t) \subseteq Ports(cfg) BY <2>1, BindsArePorts
  <2>3. CASE /\ holder[p] = Free /\ holder' = [holder EXCEPT ![p] = t]
             /\ Goto(t, IF rest = {} THEN "up" ELSE "listen", rest)
    <3>1. holder' \in [Ports(cfg) -> Int] BY <1>h, <2>1, <2>3
    <3>2. \A u \in Tids \ {t} : Keeps(u)
      <4> HIDE DEF p
      <4>1. \A u \in Tids : u # 0 BY GatewayAssumption
      <4> QED BY <1>h, <2>3, <4>1 DEF Keeps, Free
    <3>3. \A q \in BindsOf(t) : q \in rest \/ holder'[q] = t
      <4> HIDE DEF p
      <4> QED BY <1>h, <2>1, <2>2, <2>3
    <3> HIDE DEF rest, p
    <3> QED BY <1>c, <2>1, <2>3, <3>1, <3>2, <3>3, Moves
  <2>4. CASE Goto(t, "again", todo[t]) /\ UNCHANGED holder
    BY <1>c, <1>h, <2>1, <2>4, Moves
  <2>5. CASE holder' = Released(holder, t) /\ Goto(t, "dial", {})
    BY <1>c, <2>1, <2>5, ReleasedKeeps, Moves
  <2> QED BY <1>5, <2>3, <2>4, <2>5 DEF Listen, AfterError
<1>6. ASSUME NEW t \in Tids, LinkLost(t) PROVE Holding'
  <2>1. t \in Started(cfg) BY <1>6 DEF LinkLost, Holding
  <2>2. PICK stale \in SUBSET {t} : holder' = Left(holder, {t}, stale)
    BY <1>6 DEF LinkLost
  <2>3. {t} \in SUBSET Tids OBVIOUS
  <2>4. holder' \in [Ports(cfg) -> Int] /\ \A u \in Tids \ {t} : Keeps(u)
    BY <1>c, <2>2, <2>3, LeftKeeps
  <2> QED BY <1>6, <1>c, <2>1, <2>4, Moves DEF LinkLost
<1>7. ASSUME NEW t \in Tids, HostNotices(t) PROVE Holding'
  <2>1. -t \in Int /\ \A u \in Tids : u # -t BY GatewayAssumption
  <2>2. holder' \in [Ports(cfg) -> Int] /\ \A u \in Tids : Keeps(u)
    BY <1>7, <1>c, <2>1, ReleasedKeeps DEF HostNotices
  <2>3. UNCHANGED <<tun, todo>> BY <1>7 DEF HostNotices
  <2> QED BY <1>c, <2>2, <2>3, HoldingStays DEF Holding, Lives
<1>8. CASE StopTunnel
  <2>1. next \in Tids /\ next \in Int BY <1>8, GatewayAssumption DEF StopTunnel
  <2> QED BY <1>8, <1>c, <2>1, ReleasedKeeps, Moves DEF StopTunnel
<1>9. CASE Exit
  BY <1>9, <1>c, <1>h, AllDown DEF Exit, Ends
<1>10. CASE Crash
  <2>1. PICK stale \in SUBSET Tids : holder' = Left(holder, Tids, stale) BY <1>10 DEF Crash
  <2>2. holder' \in [Ports(cfg) -> Int] BY <1>c, <2>1, LeftKeeps
  <2> QED BY <1>10, <1>c, <2>2, AllDown DEF Crash, Ends
<1>11. CASE \/ Start \/ AutoSkip \/ Loads \/ AutoStarts \/ AutoFails \/ Interrupt \/ Shutdown
            \/ AddReturns \/ \E d \in Name : AddMapping(d) \/ RemoveMapping(d)
  BY <1>1, <1>11 DEF Start, AutoSkip, Loads, AutoLoads, AddLoads, KeyLoads, AutoStarts, AutoFails,
     AutoNext, Interrupt, Shutdown, AddReturns, AddMapping, RemoveMapping, tvars
<1> QED
  BY <1>2, <1>3, <1>4, <1>5, <1>6, <1>7, <1>8, <1>9, <1>10, <1>11
  DEF Next, Boot, Stopping, Mapping, Tunnel, Loads

-----------------------------------------------------------------------------
(* The identity: who may load a key, and what it finds.                     *)

Identity == Quiet /\ Running /\ BootKey /\ ServeKey

LEMMA SameIdentityState ==
    ASSUME Identity, UNCHANGED <<pc, server, booted, adding, proxy, keyVars, cfg, next>>,
           Booting => \A t \in Tids : tun'[t] = tun[t]
    PROVE  Identity'
BY DEF Identity, Quiet, Running, BootKey, ServeKey, Shown, Booting, Busy, AtDevice, Device,
       Startable, PortMapping, keyVars

(* A key is generated only where no server shows one of a file.             *)
LEMMA IdentityLoads ==
    ASSUME IInv, Loads
    PROVE  Identity'
<1> USE DEF IInv
<1>1. PICK a \in Callers :
          /\ LoadContinues(a)
          /\ a = Main => AtDevice /\ Startable(Device)
          /\ a # Main => ~Booting
  <2>1. CASE AutoLoads BY <2>1, Callees DEF AutoLoads
  <2>2. CASE AddLoads BY <2>2, Callees DEF AddLoads, Quiet
  <2>3. CASE \E t \in Tids : KeyLoads(t) BY <2>3, Callees DEF KeyLoads, Quiet
  <2> QED BY <2>1, <2>2, <2>3 DEF Loads
<1>2. Others(a) /\ Busy(a)' /\ (~Busy(a) => keyFile = Absent)
  BY <1>1, ContinueFacts
<1>3. UNCHANGED <<pc, server, booted, adding, proxy, tun, cfg, next>>
  BY DEF Loads, AutoLoads, AddLoads, KeyLoads, mvars, svars, tvars
<1>4. \A b \in Callers \ {a} : Busy(b)' = Busy(b) BY <1>2 DEF Others, Busy
<1>5. UNCHANGED <<AtDevice, Startable(Device), Booting>>
  BY <1>3 DEF AtDevice, Startable, Device, PortMapping, Booting
<1>6. Quiet' BY <1>1, <1>2, <1>3, <1>4, <1>5, Callees DEF Quiet
<1>7. Running' BY <1>3 DEF Running
<1>8. BootKey'
  <2>1. SUFFICES ASSUME pc = "autostart", NEW d \in Name, server[d] # Absent PROVE FALSE
    BY <1>3 DEF BootKey
  <2>2. a = Main BY <1>1, <2>1 DEF Booting
  <2> QED BY <1>2, <2>1, <2>2 DEF BootKey
<1>9. ServeKey'
  <2>1. SUFFICES ASSUME ~Booting, NEW d \in booted, server[d] > 0 PROVE FALSE
    BY <1>3, <1>5 DEF ServeKey
  <2>2. Shown(d) BY <2>1 DEF ServeKey
  <2> QED BY <1>1, <1>2, <2>1, <2>2 DEF Shown, Absent
<1> QED BY <1>6, <1>7, <1>8, <1>9 DEF Identity

(* AutoStart: the server that starts shows what host_key then holds.        *)
LEMMA IdentityBoots ==
    ASSUME IInv, AutoSkip \/ AutoStarts \/ AutoFails
    PROVE  Identity'
<1> USE DEF IInv
<1>0. AtDevice /\ pc = "autostart" /\ Booting /\ AutoNext
  BY DEF AutoSkip, AutoStarts, AutoFails, AtDevice, Booting
<1>1. Device \in Name BY <1>0, DeviceIsName
<1>2. UNCHANGED <<pc, adding, proxy, tun, cfg>>
  BY <1>0 DEF AutoSkip, AutoStarts, AutoFails, AutoNext, svars, tvars
<1>3. Booting' BY <1>0, <1>2 DEF Booting
<1>4. ~Busy(Main)' /\ \A b \in Callers \ {Main} : Busy(b)' = Busy(b)
  <2>1. CASE AutoSkip
    <3>1. ~Busy(Main) BY <2>1 DEF AutoSkip, Quiet
    <3> QED BY <2>1, <3>1 DEF AutoSkip, keyVars, Busy
  <2>2. CASE AutoStarts BY <2>2, Callees, ReturnFacts DEF AutoStarts, Others, Busy
  <2>3. CASE AutoFails BY <2>3, Callees, FailFacts DEF AutoFails, Others, Busy
  <2> QED BY <2>1, <2>2, <2>3
<1>5. /\ \A d \in Name : server'[d] # Absent => server'[d] = keyFile'
      /\ \A d \in booted' : server'[d] # Absent
  <2>1. CASE AutoSkip
    BY <1>0, <2>1 DEF AutoSkip, svars, keyVars, BootKey, Running
  <2>2. CASE AutoStarts
    <3>1. PICK data \in Torn..generated :
             LoadReturns(Main, data) /\ server' = [server EXCEPT ![Device] = data]
      BY <2>2 DEF AutoStarts
    <3>2. /\ data # Absent /\ keyFile' = data
          /\ ~Busy(Main) => keyFile = data
      BY <3>1, Callees, ReturnFacts
    <3>3. \A d \in Name : server[d] # Absent => server[d] = data
      BY <1>0, <3>2 DEF BootKey
    <3>4. booted' = booted \cup {Device} BY <2>2 DEF AutoStarts
    <3> QED BY <1>1, <3>1, <3>2, <3>3, <3>4 DEF Running, TypeOK
  <2>3. CASE AutoFails
    <3>1. keyFile' = keyFile BY <2>3, Callees, FailFacts DEF AutoFails
    <3> QED BY <1>0, <2>3, <3>1 DEF AutoFails, svars, BootKey, Running
  <2> QED BY <2>1, <2>2, <2>3
<1>6. Quiet' BY <1>0, <1>2, <1>3, <1>4 DEF Quiet
<1>7. Running' BY <1>0, <1>2, <1>5 DEF Running, Quiet
<1>8. BootKey' BY <1>4, <1>5 DEF BootKey
<1>9. ServeKey' BY <1>3 DEF ServeKey
<1> QED BY <1>6, <1>7, <1>8, <1>9 DEF Identity

(* The tunnels start when the servers have settled the key, or when there   *)
(* is none.                                                                 *)
LEMMA IdentityServes ==
    ASSUME IInv, Start \/ StartTunnels \/ Interrupt \/ Shutdown \/ Exit \/ Crash
    PROVE  Identity'
<1> USE DEF IInv
<1>1. CASE Start
  BY <1>1 DEF Start, Identity, Quiet, Running, BootKey, ServeKey, Booting, Busy, AtDevice,
              svars, tvars, keyVars
<1>2. CASE StartTunnels
  <2>1. pc = "autostart" /\ Booting /\ pc' = "serving" /\ ~Booting' /\ ~AtDevice
    BY <1>2 DEF StartTunnels, AutoDone, AtDevice, Booting, TypeOK
  <2>2. UNCHANGED <<server, booted, adding, proxy, keyFile, loading>>
    BY <1>2 DEF StartTunnels, svars, keyVars
  <2>3. \A a \in Callers : ~Busy(a) BY <2>1 DEF Quiet
  <2>4. \A a \in Callers : ~Busy(a)' BY <2>2, <2>3 DEF Busy
  <2>5. Quiet' BY <2>1, <2>4, Callees DEF Quiet
  <2>6. Running' BY <2>2 DEF Running
  <2>7. BootKey' BY <2>1 DEF BootKey
  <2>8. ASSUME NEW d \in booted', server'[d] > 0 PROVE Shown(d)'
    <3>1. d \in Name /\ server[d] # Absent BY <2>2, <2>8 DEF TypeOK, Absent
    <3> QED BY <2>1, <2>2, <2>4, <3>1 DEF Shown, BootKey, Quiet
  <2> QED BY <2>5, <2>6, <2>7, <2>8 DEF Identity, ServeKey
<1>3. CASE Interrupt
  BY <1>3 DEF Interrupt, Identity, Quiet, Running, BootKey, ServeKey, Shown, Booting, Busy,
              AtDevice, svars, tvars, keyVars
<1>4. CASE Shutdown
  BY <1>4 DEF Shutdown, Identity, Quiet, Running, BootKey, ServeKey, Booting, Busy, AtDevice,
              tvars, keyVars
<1>5. CASE Exit \/ Crash
  <2>1. \A a \in Callers : ~Busy(a)' BY <1>5, EndFacts DEF Exit, Crash, Ends
  <2> QED BY <1>5, <2>1, Callees DEF Exit, Crash, Ends, Identity, Quiet, Running, BootKey,
             ServeKey, Booting
<1> QED BY <1>1, <1>2, <1>3, <1>4, <1>5

(* A call that ends leaves the others' calls as they were.                  *)
LEMMA LoadEnded ==
    ASSUME NEW a \in Callers, Others(a), ~Busy(a)'
    PROVE  \A b \in Callers : Busy(b)' => Busy(b)
BY DEF Others, Busy

LEMMA IdentityMaps ==
    ASSUME IInv, AddReturns \/ \E d \in Name : AddMapping(d) \/ RemoveMapping(d)
    PROVE  Identity'
<1> USE DEF IInv
<1>1. ~Booting /\ ~Booting' /\ UNCHANGED <<pc, proxy, tun, cfg, next>>
  BY DEF AddReturns, AddMapping, RemoveMapping, Serving, Booting, Quiet, mvars, tvars
<1>2. ~Busy(Main) /\ \A b \in Callers : Busy(b)' => Busy(b)
  <2>1. ~Busy(Main) BY <1>1 DEF Quiet, AtDevice, Booting
  <2>2. CASE AddReturns
    BY <2>1, <2>2, Callees, ReturnFacts, FailFacts, LoadEnded DEF AddReturns
  <2>3. CASE \E d \in Name : AddMapping(d) \/ RemoveMapping(d)
    BY <2>1, <2>3 DEF AddMapping, RemoveMapping, keyVars, Busy
  <2> QED BY <2>1, <2>2, <2>3
<1>3. Quiet' BY <1>1, <1>2, Callees DEF Quiet, Booting
<1>4. BootKey' BY <1>1 DEF BootKey, Booting
<1>5. CASE AddReturns
  <2>0. adding \in Name /\ adding \notin booted /\ server[adding] = Absent
    BY <1>5 DEF AddReturns, Running, TypeOK
  <2>1. UNCHANGED booted /\ adding' = Unset BY <1>5 DEF AddReturns
  <2>2. CASE LoadFails(Http) /\ UNCHANGED server
    <3>1. keyFile' = keyFile BY <2>2, Callees, FailFacts
    <3>2. Running' BY <2>1, <2>2 DEF Running
    <3>3. ServeKey' BY <1>1, <1>2, <2>1, <2>2, <3>1 DEF ServeKey, Shown
    <3> QED BY <1>3, <1>4, <3>2, <3>3 DEF Identity
  <2>3. CASE \E data \in Torn..generated :
                LoadReturns(Http, data) /\ server' = [server EXCEPT ![adding] = data]
    <3>1. PICK data \in Torn..generated :
             LoadReturns(Http, data) /\ server' = [server EXCEPT ![adding] = data]
      BY <2>3
    <3>2. keyFile' = data /\ data # Absent /\ (~Busy(Http) => keyFile = data)
      BY <3>1, Callees, ReturnFacts
    <3>3. server'[adding] = data /\ \A e \in Name \ {adding} : server'[e] = server[e]
      BY <2>0, <3>1 DEF TypeOK
    <3>4. booted \subseteq Name \ {adding} BY <2>0 DEF TypeOK
    <3>5. Running' BY <2>1, <3>3, <3>4 DEF Running
    <3>6. ASSUME NEW d \in booted', server'[d] > 0 PROVE Shown(d)'
      <4>1. d \in booted /\ server'[d] = server[d] BY <2>1, <3>3, <3>4
      <4>2. Shown(d) BY <1>1, <3>6, <4>1 DEF ServeKey
      <4>3. keyFile' = server'[d] BY <3>2, <4>1, <4>2, Callees DEF Shown
      <4>4. \A e \in Name : server'[e] \in {Absent, server'[d]}
        BY <3>2, <3>3, <4>1, <4>2, <4>3 DEF Shown
      <4> QED BY <1>1, <1>2, <4>1, <4>2, <4>3, <4>4 DEF Shown
    <3>7. ServeKey' BY <3>6 DEF ServeKey
    <3> QED BY <1>3, <1>4, <3>5, <3>7 DEF Identity
  <2> QED BY <1>5, <2>2, <2>3 DEF AddReturns
<1>6. ASSUME NEW d \in Name, AddMapping(d) \/ RemoveMapping(d) PROVE Identity'
  <2>1. UNCHANGED <<keyFile, loading>> /\ booted' \subseteq booted
    BY <1>6 DEF AddMapping, RemoveMapping, keyVars
  <2>2. \A e \in Name : server'[e] = Absent \/ server'[e] = server[e]
    BY <1>6 DEF AddMapping, RemoveMapping, TypeOK
  <2>3. \A e \in booted' : server'[e] = server[e]
    BY <1>6 DEF AddMapping, RemoveMapping, TypeOK
  <2>4. Running'
    BY <1>6, <2>1, <2>3 DEF Running, AddMapping, RemoveMapping, Startable
  <2>5. ASSUME NEW e \in booted', server'[e] > 0 PROVE Shown(e)'
    <3>1. Shown(e) BY <1>1, <2>1, <2>3, <2>5 DEF ServeKey
    <3> QED BY <1>1, <1>2, <2>1, <2>2, <2>3, <2>5, <3>1 DEF Shown
  <2> QED BY <1>3, <1>4, <2>4, <2>5 DEF Identity, ServeKey
<1> QED BY <1>5, <1>6

(* A tunnel in ssh_proxy mode finds the key that the servers show.          *)
LEMMA IdentityTunnels ==
    ASSUME IInv, NEW t \in Tids,
           \/ Connect(t) \/ KeyReturns(t) \/ KeyFails(t) \/ Listen(t)
           \/ LinkLost(t) \/ HostNotices(t) \/ StopTunnel
    PROVE  Identity'
<1> USE DEF IInv
<1>0. UNCHANGED <<pc, server, booted, adding, cfg, file>>
  BY DEF Connect, KeyReturns, KeyFails, Listen, LinkLost, HostNotices, StopTunnel, mvars, svars
<1>1. HostNotices(t) \/ ~Booting
  <2>1. StopTunnel => ~Booting BY DEF StopTunnel, Booting
  <2>2. Booting => tun[t] = "off" BY DEF Quiet
  <2> QED BY <2>1, <2>2 DEF Connect, KeyReturns, KeyFails, Listen, LinkLost
<1>2. CASE HostNotices(t)
  <2>1. UNCHANGED <<pc, server, booted, adding, proxy, keyVars, cfg, next, tun>>
    BY <1>2 DEF HostNotices, mvars, svars
  <2> QED BY <2>1, SameIdentityState DEF Identity
<1>3. CASE ~Booting
  <2>0. ~Booting' BY <1>0, <1>3 DEF Booting
  <2>1. ~Busy(Main) BY <1>3 DEF Quiet, AtDevice, Booting
  <2>2. \A b \in Callers : Busy(b)' => Busy(b)
    <3>1. CASE UNCHANGED keyVars BY <3>1 DEF keyVars, Busy
    <3>2. CASE KeyReturns(t) BY <3>2, Callees, ReturnFacts, LoadEnded DEF KeyReturns
    <3>3. CASE KeyFails(t) BY <3>1, <3>3, Callees, FailFacts, LoadEnded DEF KeyFails
    <3> QED BY <3>1, <3>2, <3>3 DEF Connect, Listen, LinkLost, HostNotices, StopTunnel
  <2>3. Quiet' BY <2>0, <2>1, <2>2, Callees DEF Quiet, Booting
  <2>4. Running' BY <1>0 DEF Running
  <2>5. BootKey' BY <2>0 DEF BootKey, Booting
  <2>6. ASSUME NEW d \in booted, server[d] > 0 PROVE Shown(d)'
    <3>1. Shown(d) BY <1>3, <2>6 DEF ServeKey
    <3>2. /\ keyFile' = keyFile
          /\ \A u \in Tids : proxy'[u] \in {Absent, proxy[u], keyFile}
      <4>1. CASE UNCHANGED <<keyVars, proxy>> BY <4>1 DEF keyVars
      <4>2. CASE KeyReturns(t)
        BY <3>1, <4>2, Callees, ReturnFacts DEF KeyReturns, Shown, TypeOK
      <4>3. CASE KeyFails(t)
        BY <4>1, <4>3, Callees, FailFacts DEF KeyFails
      <4>4. CASE StopTunnel BY <4>4 DEF StopTunnel, keyVars, TypeOK
      <4> QED BY <4>1, <4>2, <4>3, <4>4 DEF Connect, Listen, LinkLost, HostNotices
    <3> QED BY <1>0, <2>2, <3>1, <3>2 DEF Shown
  <2>7. ServeKey' BY <1>0, <2>6 DEF ServeKey
  <2> QED BY <2>3, <2>4, <2>5, <2>7 DEF Identity
<1> QED BY <1>1, <1>2, <1>3

LEMMA IdentityKept ==
    ASSUME IInv, Next
    PROVE  Identity'
<1>1. CASE StopTunnel
  <2>1. next \in Tids BY <1>1 DEF StopTunnel
  <2> QED BY <1>1, <2>1, IdentityTunnels
<1> QED
  BY <1>1, IdentityLoads, IdentityBoots, IdentityServes, IdentityMaps, IdentityTunnels
  DEF Next, Boot, Stopping, Mapping, Tunnel, Loads

-----------------------------------------------------------------------------
LEMMA NextInv == IInv /\ [Next]_vars => IInv'
<1> SUFFICES ASSUME IInv, [Next]_vars PROVE IInv'
  OBVIOUS
<1>1. CASE Next
  <2>1. TypeOK' /\ KeyInv' /\ Holding' /\ Identity'
    BY <1>1, TypesKept, KeysKept, HoldingKept, IdentityKept
  <2>2. Derived' BY <1>1, DerivedKept DEF IInv
  <2> QED BY <2>1, <2>2 DEF IInv, Identity
<1>2. CASE UNCHANGED vars
  <2> USE <1>2 DEF IInv, vars, mvars, svars, tvars, keyVars
  <2>1. TypeOK' BY DEF TypeOK
  <2>2. Derived' BY DEF Derived
  <2>3. KeyInv' BY DEF KeyInv, KeyTypes, Busy
  <2>4. Identity' BY SameIdentityState DEF Identity
  <2>5. Holding' BY DEF Holding, BindsOf, Config
  <2> QED BY <2>1, <2>2, <2>3, <2>4, <2>5 DEF Identity
<1> QED BY <1>1, <1>2

THEOREM InvariantHolds == Spec => []IInv
BY InitInv, NextInv, PTL DEF Spec

(* The types of the gateway, its servers, tunnels and key loads.            *)
THEOREM TypeCorrect == Spec => []TypeOK
<1>1. IInv => TypeOK BY DEF IInv
<1> QED BY <1>1, InvariantHolds, PTL

(* Every endpoint shows the identity that host_key keeps for the next start.*)
THEOREM IdentityIsShared == Spec => []SharedIdentity
<1>1. IInv => SharedIdentity
  <2> SUFFICES ASSUME IInv, NEW d \in booted, server[d] > 0
               PROVE  Shown(d)
    BY DEF SharedIdentity, Shown
  <2> USE DEF IInv
  <2>1. CASE ~Booting BY <2>1 DEF ServeKey
  <2>2. CASE pc = "down" BY <2>2 DEF Quiet
  <2>3. CASE pc = "autostart"
    <3>1. d \in Name /\ server[d] # Absent BY DEF TypeOK, Absent
    <3>2. \A a \in Callers : ~Busy(a)
      BY <2>3, <3>1, Callees DEF BootKey, Quiet, Booting
    <3> QED BY <2>3, <3>1, <3>2 DEF BootKey, Quiet, Booting, Shown
  <2> QED BY <2>1, <2>2, <2>3 DEF Booting
<1> QED BY <1>1, InvariantHolds, PTL

(* The command tunnel-ports names the ports that the tunnels bind.          *)
THEOREM PortsAreListed == Spec => []ListedIsBound
<1>1. IInv => ListedIsBound
  <2> SUFFICES ASSUME IInv PROVE ListedIsBound
    OBVIOUS
  <2> USE DEF IInv
  <2>1. PICK flag \in Flags : cfg = Loaded(file, flag) BY DEF Derived
  <2>2. Listed(file) = Ports(cfg) /\ DOMAIN Tunnels(cfg) \subseteq Tids
    BY <2>1, ListedIsPorts DEF Derived
  <2>3. DOMAIN holder = Ports(cfg) BY DEF Holding
  <2>4. ASSUME \A t \in Started(cfg) : tun[t] = "up" PROVE Listed(file) \subseteq Bound
    <3>1. ASSUME NEW p \in Ports(cfg) PROVE p \in Bound
      <4>1. PICK t \in Started(cfg) : p \in BindsOf(t)
        BY <3>1 DEF Ports, BindsOf, Config
      <4>2. t \in Tids BY <2>2 DEF Started
      <4>3. holder[p] = t BY <2>4, <4>1, <4>2 DEF Holding
      <4> QED BY <2>3, <4>2, <4>3 DEF Bound
    <3> QED BY <2>2, <3>1
  <2> QED BY <2>2, <2>3, <2>4 DEF ListedIsBound, Bound
<1> QED BY <1>1, InvariantHolds, PTL

-----------------------------------------------------------------------------
(* Behind the proxy of a tunnel each connection has a bridge of its own,    *)
(* whose state nothing of Gateway touches.                                  *)

(* How far bridgeSession is, and with it the command: which is started last *)
(* and has ended when the session returns, whose status is then what the    *)
(* session has reported.  A status is reported once, before the return.     *)
BeforeStart == {"none", "dial", "session", "pty", "start"}

ReportTypes ==
    /\ at \in [Sessions -> BeforeStart \cup {"wait", "return", "returned"}]
    /\ exit \in [Sessions -> Int] /\ status \in [Sessions -> Int]
    /\ cmd \in [Sessions -> {"none", "running", "ended", "lost"}]

Reports ==
    \A s \in Sessions :
        /\ at[s] \in BeforeStart <=> cmd[s] = "none" /\ exit[s] = None
        /\ at[s] = "wait" => exit[s] = None
        /\ IF cmd[s] = "ended" THEN status[s] >= 0 ELSE status[s] = None
        /\ at[s] \in {"return", "returned"} =>
              /\ exit[s] # None /\ cmd[s] # "running"
              /\ exit[s] = 0 => cmd[s] = "ended" /\ status[s] = 0
              /\ status[s] > 0 => exit[s] = status[s]

BridgeInv == ReportTypes /\ Reports

LEMMA BridgeStarts == BridgeInit => BridgeInv
BY DEF BridgeInit, None, BridgeInv, ReportTypes, Reports, BeforeStart

LEMMA BridgeGoes == BridgeInv /\ [BridgeNext]_bridgeVars => BridgeInv'
<1> SUFFICES ASSUME BridgeInv, [BridgeNext]_bridgeVars PROVE BridgeInv'
  OBVIOUS
<1> USE DEF BridgeInv, ReportTypes, Reports, BeforeStart, None
<1>1. CASE UNCHANGED <<at, exit, cmd, status>>
  BY <1>1
<1>2. ASSUME NEW s \in Sessions, Request(s) PROVE BridgeInv'
  BY <1>2 DEF Request, Move, Report, targetVars
<1>3. ASSUME NEW s \in Sessions, Fail(s) PROVE BridgeInv'
  BY <1>3 DEF Fail, Failure, Move, Report, targetVars
<1>4. ASSUME NEW s \in Sessions, Dial(s) \/ NewSession(s) \/ Helpers(s) PROVE BridgeInv'
  BY <1>4 DEF Dial, NewSession, Helpers, Move, targetVars
<1>5. ASSUME NEW s \in Sessions, StartCommand(s) PROVE BridgeInv'
  BY <1>5 DEF StartCommand, Move
<1>6. ASSUME NEW s \in Sessions, Waited(s) PROVE BridgeInv'
  <2>1. PICK code \in Reported(s) : exit' = [exit EXCEPT ![s] = IF @ = None THEN code ELSE @]
    BY <1>6 DEF Waited, Report
  <2>2. /\ at[s] = "wait" /\ at' = [at EXCEPT ![s] = "return"] /\ cmd[s] \in {"ended", "lost"}
        /\ UNCHANGED <<cmd, status>>
    BY <1>6 DEF Waited, Move, targetVars
  <2>3. /\ code \in Int /\ code # None
        /\ code = 0 => cmd[s] = "ended" /\ status[s] = 0
        /\ status[s] > 0 => code = status[s]
    BY <2>1, <2>2 DEF Reported
  <2> QED
    BY <2>1, <2>2, <2>3
<1>7. ASSUME NEW s \in Sessions, Return(s) PROVE BridgeInv'
  BY <1>7 DEF Return, Move, Report
<1>8. ASSUME NEW s \in Sessions, CommandEnds(s) PROVE BridgeInv'
  BY <1>8 DEF CommandEnds
<1>9. ASSUME NEW s \in Sessions, TargetLost(s) PROVE BridgeInv'
  BY <1>9 DEF TargetLost
<1>10. \/ Refuse \/ HandleConn \/ Disconnect \/ UNCHANGED bridgeVars
       \/ \E s \in Sessions : HangUp(s) \/ HelperEnds(s)
       => UNCHANGED <<at, exit, cmd, status>>
  BY DEF Refuse, HandleConn, Disconnect, HangUp, HelperEnds,
         bridgeVars, targetVars
<1> QED
  BY <1>1, <1>2, <1>3, <1>4, <1>5, <1>6, <1>7, <1>8, <1>9, <1>10 DEF BridgeNext, Handler

LEMMA BridgeTyped ==
    ASSUME BridgeTypes, BridgeInv, [BridgeNext]_bridgeVars
    PROVE  BridgeTypes'
<1> USE ProxyAssumption DEF BridgeTypes, None
<1>1. CASE Refuse \/ HandleConn \/ Disconnect \/ UNCHANGED bridgeVars
  BY <1>1 DEF Refuse, HandleConn, Disconnect, bridgeVars, connVars, targetVars
<1>2. ASSUME NEW s \in Sessions, Request(s) \/ HangUp(s) \/ Fail(s) PROVE BridgeTypes'
  BY <1>2 DEF Request, HangUp, Fail, Failure, Move, Report, connVars, targetVars
<1>3. ASSUME NEW s \in Sessions, Dial(s) \/ NewSession(s) \/ StartCommand(s) PROVE BridgeTypes'
  BY <1>3 DEF Dial, NewSession, StartCommand, Move, connVars, targetVars
<1>4. ASSUME NEW s \in Sessions, Helpers(s) \/ HelperEnds(s) PROVE BridgeTypes'
  BY <1>4 DEF Helpers, HelperEnds, Move, connVars, targetVars
<1>5. ASSUME NEW s \in Sessions, Waited(s) PROVE BridgeTypes'
  <2>1. Reported(s) \subseteq 0..MaxStatus
    BY <1>5 DEF Waited, Reported, BridgeInv, Reports
  <2> QED BY <1>5, <2>1 DEF Waited, Move, Report, connVars, targetVars
<1>6. ASSUME NEW s \in Sessions, Return(s) PROVE BridgeTypes'
  BY <1>6 DEF Return, ClosesTarget, Move, Report, connVars
<1>7. ASSUME NEW s \in Sessions, CommandEnds(s) \/ TargetLost(s) PROVE BridgeTypes'
  BY <1>7 DEF CommandEnds, TargetLost, connVars
<1> QED
  BY <1>1, <1>2, <1>3, <1>4, <1>5, <1>6, <1>7 DEF BridgeNext, Handler

(* The type invariant of the bridge (proxybridge.go:71-167): what is told   *)
(* the user is a status that the target's command can have.                 *)
THEOREM BridgeTypeCorrect == BridgeSpec => []BridgeTypes
<1>1. BridgeInit => BridgeTypes
  BY ProxyAssumption DEF BridgeInit, BridgeTypes, None
<1> QED
  BY <1>1, BridgeTyped, BridgeStarts, BridgeGoes, PTL DEF BridgeSpec

(* A user of a proxied session is told success only if the command ran and *)
(* succeeded, and another status as it was, for any number of sessions.     *)
THEOREM BridgeIsTruthful == BridgeSpec => []ExitIsTruthful
<1>1. BridgeInv => ExitIsTruthful
  BY DEF BridgeInv, ReportTypes, Reports, BeforeStart, None, ExitIsTruthful
<1> QED
  BY <1>1, BridgeStarts, BridgeGoes, PTL DEF BridgeSpec
=============================================================================
