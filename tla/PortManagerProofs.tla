------------------------- MODULE PortManagerProofs -------------------------
(***************************************************************************)
(* The port manager, for any devices, any configured ports (repeated ones  *)
(* included) and any number of requests: no server runs outside the map,   *)
(* no two recorders share a file, and Shutdown stops everything.           *)
(***************************************************************************)
EXTENDS PortManager, TLAPS

\* The server AutoStart is between creating and storing has a device that is
\* not in the map yet; HTTP is not served before AutoStart is done.
BootInv ==
    boot.at # "check" =>
        /\ phase = "boot" /\ boot.i <= Len(BootPorts)
        /\ servers[BootDevice] = 0
        /\ boot.srv \in Known /\ srv[boot.srv].dev = BootDevice

\* A recorder that is on is the one of the map, or of the server AutoStart is
\* about to store; while AutoStart runs, a device in recorders is in servers.
RecorderInv ==
    /\ \A d \in Devices : recorders[d] # 0 => srv[recorders[d]].dev = d
    /\ \A i \in Known : rec[i] = "on" =>
           recorders[srv[i].dev] = i \/ (boot.srv = i /\ boot.at = "store")
    /\ \A i \in Srv \ Known : rec[i] = "none"
    /\ phase = "boot" => \A d \in Devices : recorders[d] # 0 => servers[d] # 0

\* What req[c] may be.
RequestState == [at : {"idle", "list", "panic", "held", "using"},
                 srv : 0..MaxServers, todo : SUBSET Devices]

\* What a server may be.
ServerState == [dev : Devices, running : BOOLEAN, open : BOOLEAN, recorded : BOOLEAN,
                listener : {"none", "starting", "up", "failed", "closed"}]

\* Shutdown leaves both maps empty; requests then add to pm.servers only what
\* they have created.
ExitInv ==
    phase \in {"unlocked", "exited"} =>
        \A d \in Devices : servers[d] \notin 1..last /\ recorders[d] = 0

IInv == TypeOK /\ BootInv /\ RunningIsMapped /\ RecorderInv /\ ExitInv

USE PortManagerAssumption

\* A new gateway has no mappings.
LEMMA InitIInv == Init => IInv
<1> SUFFICES ASSUME Init PROVE IInv
  OBVIOUS
<1>1. NotCreated.dev \in Devices
  BY DEF NotCreated
<1>2. TypeMain /\ TypeMaps
  BY DEF Init, TypeMain, TypeMaps
<1>3. TypeServers
  BY <1>1 DEF Init, TypeServers, NotCreated, Srv
<1>4. TypeRequests
  BY DEF Init, TypeRequests, Idle
<1>5. BootInv /\ RunningIsMapped /\ RecorderInv /\ ExitInv
  BY DEF Init, BootInv, RunningIsMapped, RecorderInv, ExitInv, Known, Srv
<1> QED
  BY <1>2, <1>3, <1>4, <1>5 DEF IInv, TypeOK

-----------------------------------------------------------------------------
\* What stays when one server changes: what the update keeps.
LEMMA ServerUpdate ==
    ASSUME TypeServers, NEW i, NEW s, srv' = [srv EXCEPT ![i] = s], i \in Srv => s \in ServerState,
           rec' \in [Srv -> {"none", "on", "stopped"}], missed' = missed
    PROVE  /\ TypeServers'
           /\ \A j \in Srv : srv'[j] = IF j = i THEN s ELSE srv[j]
  BY DEF TypeServers, ServerState

\* Requests and listeners: nothing the manager accounts for changes.
LEMMA SameServers ==
    ASSUME IInv, TypeServers', TypeRequests',
           UNCHANGED <<phase, boot, servers, recorders, created, rec, last>>,
           \A i \in Srv : srv'[i].dev = srv[i].dev /\ srv'[i].running = srv[i].running
    PROVE  IInv'
<1>1. Known \subseteq Srv /\ Known' = Known
  BY DEF IInv, TypeOK, TypeMaps, Known, Srv
<1>2. TypeMain'
  BY DEF IInv, TypeOK, TypeMain
<1>3. \A d \in Devices : /\ servers[d] # 0 => servers[d] \in Srv
                         /\ recorders[d] # 0 => recorders[d] \in Srv
  BY DEF IInv, TypeOK, TypeMaps, Srv
<1>4. TypeMaps'
  BY <1>3 DEF IInv, TypeOK, TypeMaps
<1>5. BootInv'
  BY <1>1 DEF IInv, BootInv, BootDevice
<1>6. RunningIsMapped'
  BY <1>1 DEF IInv, RunningIsMapped
<1>7. RecorderInv'
  BY <1>1, <1>3 DEF IInv, RecorderInv
<1>8. ExitInv'
  BY DEF IInv, ExitInv
<1> QED
  BY <1>2, <1>4, <1>5, <1>6, <1>7, <1>8 DEF IInv, TypeOK

\* Every request and every server's own goroutines, but the operations that
\* change a mapping.
LEMMA RequestIInv ==
    ASSUME IInv, NEW c \in Clients,
           \/ \E d \in Devices : ListNext(c, d) \/ GetServer(c, d)
           \/ \E i \in Known : Accept(c, i)
           \/ ListMappings(c) \/ Recovered(c) \/ EndRequest(c)
    PROVE  IInv'
<1>1. UNCHANGED <<phase, boot, servers, recorders, created, srv, rec, missed, last>>
  BY DEF ListNext, GetServer, Accept, ListMappings, Recovered, EndRequest
<1>2. created \in 0..MaxServers /\ servers \in [Devices -> 0..created]
  BY DEF IInv, TypeOK, TypeMaps
<1>3. TypeRequests
  BY DEF IInv, TypeOK
<1>4. TypeRequests'
  <2>0. req[c] \in RequestState /\ Idle \in RequestState
    BY <1>3 DEF TypeRequests, RequestState, Idle
  <2>1. ASSUME NEW d \in Devices, ListNext(c, d) PROVE TypeRequests'
    <3>1. LookedUp(req[c], d) \in RequestState
      BY <2>0 DEF LookedUp, RequestState
    <3>2. req' = [req EXCEPT ![c] = LookedUp(req[c], d)]
      BY <2>1 DEF ListNext
    <3> QED
      BY <1>3, <3>1, <3>2 DEF TypeRequests, RequestState
  <2>2. ASSUME NEW i \in 0..MaxServers, req' = [req EXCEPT ![c] = [Idle EXCEPT !.at = "held", !.srv = i]]
        PROVE TypeRequests'
    <3>1. [Idle EXCEPT !.at = "held", !.srv = i] \in RequestState
      BY DEF RequestState, Idle
    <3> QED
      BY <1>3, <2>2, <3>1 DEF TypeRequests, RequestState
  <2>3. ASSUME NEW d \in Devices, GetServer(c, d) PROVE TypeRequests'
    <3>1. servers[d] \in 0..MaxServers
      BY <1>2
    <3> QED
      BY <2>2, <2>3, <3>1 DEF GetServer
  <2>4. ASSUME NEW i \in Known, Accept(c, i) PROVE TypeRequests'
    <3>1. i \in 0..MaxServers
      BY <1>2 DEF Known
    <3> QED
      BY <2>2, <2>4, <3>1 DEF Accept
  <2>5. CASE ListMappings(c)
    BY <1>3, <2>5 DEF ListMappings, TypeRequests
  <2>6. CASE Recovered(c) \/ EndRequest(c)
    BY <1>3, <2>0, <2>6 DEF Recovered, EndRequest, TypeRequests, RequestState
  <2> QED
    BY <2>1, <2>3, <2>4, <2>5, <2>6
<1>5. TypeServers'
  BY <1>1 DEF IInv, TypeOK, TypeServers
<1> QED
  BY <1>1, <1>4, <1>5, SameServers

\* A request opens the session of the server it holds, whoever removed it.
LEMMA OpenSessionIInv == ASSUME IInv, NEW c \in Clients, OpenSession(c) PROVE IInv'
<1>1. TypeServers /\ TypeRequests
  BY DEF IInv, TypeOK
<1>2. TypeRequests'
  <2>1. req[c] \in RequestState /\ Idle \in RequestState
    BY <1>1 DEF TypeRequests, RequestState, Idle
  <2>2. [req[c] EXCEPT !.at = "using"] \in RequestState
    BY <2>1 DEF RequestState
  <2>3. \/ req' = [req EXCEPT ![c].at = "using"]
        \/ req' = [req EXCEPT ![c] = Idle]
    BY DEF OpenSession
  <2>4. \E v \in RequestState : req' = [req EXCEPT ![c] = v]
    BY <2>1, <2>2, <2>3
  <2> QED
    BY <1>1, <2>4 DEF TypeRequests, RequestState
<1>3. TypeServers' /\ \A i \in Srv : srv'[i].dev = srv[i].dev /\ srv'[i].running = srv[i].running
  <2> DEFINE i == req[c].srv
  <2>1. rec' = rec /\ missed' = missed /\ (srv' = srv \/ srv' = [srv EXCEPT ![i].open = TRUE])
    BY DEF OpenSession
  <2>2. CASE srv' = srv
    BY <1>1, <2>1, <2>2 DEF TypeServers
  <2>3. CASE srv' = [srv EXCEPT ![i].open = TRUE]
    <3>1. i \in Srv => [srv[i] EXCEPT !.open = TRUE] \in ServerState
      BY <1>1 DEF TypeServers, ServerState
    <3> DEFINE s == [srv[i] EXCEPT !.open = TRUE]
    <3>2. srv' = [srv EXCEPT ![i] = s]
      BY <2>3
    <3>3. i \in Srv => s.dev = srv[i].dev /\ s.running = srv[i].running
      BY <1>1 DEF TypeServers
    <3>4. rec' \in [Srv -> {"none", "on", "stopped"}] /\ missed' = missed
      BY <1>1, <2>1 DEF TypeServers
    <3> HIDE DEF i, s
    <3>5. TypeServers' /\ \A j \in Srv : srv'[j] = IF j = i THEN s ELSE srv[j]
      BY <1>1, <3>1, <3>2, <3>4, ServerUpdate DEF s
    <3> QED
      BY <3>3, <3>5
  <2> QED
    BY <2>1, <2>2, <2>3
<1> QED
  BY <1>2, <1>3, SameServers DEF OpenSession

\* Listening, and reading the device.
LEMMA ServerIInv == ASSUME IInv, NEW i \in Known, Server(i) PROVE IInv'
<1>1. TypeServers /\ TypeRequests /\ i \in Srv
  BY DEF IInv, TypeOK, TypeMaps, Known, Srv
<1>2. CASE Listen(i)
  <2>1. PICK o \in {"failed", "up", "closed"} : srv' = [srv EXCEPT ![i].listener = o]
    BY <1>2 DEF Listen
  <2>2. TypeServers' /\ \A j \in Srv : srv'[j].dev = srv[j].dev /\ srv'[j].running = srv[j].running
    <3>1. [srv[i] EXCEPT !.listener = o] \in ServerState
      BY <1>1 DEF TypeServers, ServerState
    <3> DEFINE s == [srv[i] EXCEPT !.listener = o]
    <3>2. srv' = [srv EXCEPT ![i] = s] /\ s \in ServerState
      BY <2>1, <3>1
    <3>3. s.dev = srv[i].dev /\ s.running = srv[i].running
      BY <1>1 DEF TypeServers
    <3>4. rec' \in [Srv -> {"none", "on", "stopped"}] /\ missed' = missed
      BY <1>1, <1>2 DEF Listen, TypeServers
    <3> HIDE DEF s
    <3>5. TypeServers' /\ \A j \in Srv : srv'[j] = IF j = i THEN s ELSE srv[j]
      BY <1>1, <3>2, <3>4, ServerUpdate
    <3> QED
      BY <3>3, <3>5
  <2>3. TypeRequests'
    BY <1>1, <1>2 DEF Listen, TypeRequests
  <2> QED
    BY <1>2, <2>2, <2>3, SameServers DEF Listen
<1>3. CASE ReadOutput(i)
  <2>1. TypeServers' /\ TypeRequests'
    BY <1>1, <1>3 DEF ReadOutput, TypeServers, TypeRequests
  <2> QED
    BY <1>3, <2>1, SameServers DEF ReadOutput
<1> QED
  BY <1>2, <1>3 DEF Server

-----------------------------------------------------------------------------
\* The manager's operations.  What the numbers of servers mean.
LEMMA Numbers ==
    ASSUME IInv
    PROVE  /\ created \in 0..MaxServers /\ Known \subseteq Srv
           /\ \A d \in Devices : /\ servers[d] # 0 => servers[d] \in Known /\ srv[servers[d]].dev = d
                                 /\ recorders[d] # 0 => recorders[d] \in Known
           /\ \A i \in Srv : srv[i] \in ServerState
  BY DEF IInv, TypeOK, TypeMaps, TypeServers, Known, Srv, ServerState

\* Creating a server takes the next number and leaves the others alone.
LEMMA CreateFacts ==
    ASSUME IInv, NEW d \in Devices, Create(d), rec' = rec, missed' = missed
    PROVE  /\ TypeServers' /\ created' = created + 1 /\ created' \in Srv /\ created' \notin Known
           /\ Known' = Known \union {created'} /\ Known' \subseteq Srv
           /\ srv'[created'] = Started(d)
           /\ \A j \in Srv : j # created' => srv'[j] = srv[j]
<1>1. created \in 0..MaxServers /\ created < MaxServers /\ created' = created + 1
      /\ srv' = [srv EXCEPT ![created + 1] = Started(d)]
  BY Numbers DEF Create
<1>2. created' \in Srv /\ created' \notin Known
      /\ Known' = Known \union {created'} /\ Known' \subseteq Srv
  BY <1>1 DEF Known, Srv
<1>3. Started(d) \in ServerState
  BY DEF Started, ServerState
<1>4. TypeServers /\ rec' \in [Srv -> {"none", "on", "stopped"}]
  BY DEF IInv, TypeOK, TypeServers
<1>5. TypeServers' /\ \A j \in Srv : srv'[j] = IF j = created + 1 THEN Started(d) ELSE srv[j]
  BY <1>1, <1>3, <1>4, ServerUpdate
<1> QED
  BY <1>1, <1>2, <1>5

\* Stopping a server ends it, and leaves the others alone.
LEMMA StopFacts ==
    ASSUME IInv, NEW i \in Srv, srv' = [srv EXCEPT ![i] = Stopped(srv[i])],
           rec' = rec, missed' = missed
    PROVE  /\ TypeServers'
           /\ srv'[i].dev = srv[i].dev /\ srv'[i].running = FALSE
           /\ \A j \in Srv : j # i => srv'[j] = srv[j]
<1>1. TypeServers /\ srv[i] \in ServerState
  BY Numbers DEF IInv, TypeOK
<1>2. Stopped(srv[i]) \in ServerState
  BY <1>1 DEF Stopped, ServerState
<1>3. Stopped(srv[i]).dev = srv[i].dev /\ Stopped(srv[i]).running = FALSE
  BY <1>1 DEF Stopped, ServerState
<1>4. TypeServers' /\ \A j \in Srv : srv'[j] = IF j = i THEN Stopped(srv[i]) ELSE srv[j]
  BY <1>1, <1>2, ServerUpdate DEF TypeServers
<1> QED
  BY <1>3, <1>4

\* main goes from phase to phase: HTTP after AutoStart, exit with empty maps.
LEMMA PhaseIInv == ASSUME IInv, StartHTTP \/ Interrupt \/ ShutdownReturns \/ Exit PROVE IInv'
<1>1. /\ UNCHANGED <<boot, servers, recorders, created, srv, rec, req, missed>>
      /\ phase' \in {"serving", "stopping", "unlocked", "exited"}
      /\ last' = last \/ last' = created
      /\ phase = "boot" => boot.i > Len(BootPorts)
  BY DEF StartHTTP, Interrupt, ShutdownReturns, Exit, MayServeHTTP
<1>2. Known' = Known
  BY <1>1 DEF Known
<1>3. TypeOK'
  BY <1>1 DEF IInv, TypeOK, TypeMain, TypeMaps, TypeServers, TypeRequests
<1>4. boot.at = "check"
  BY <1>1 DEF IInv, BootInv, StartHTTP, Interrupt, ShutdownReturns, Exit, TypeOK, TypeMain
<1>5. BootInv' /\ RunningIsMapped'
  BY <1>1, <1>2, <1>4 DEF IInv, BootInv, RunningIsMapped
<1>6. RecorderInv'
  BY <1>1, <1>2 DEF IInv, RecorderInv
<1>7. ExitInv'
  BY <1>1 DEF IInv, ExitInv, StartHTTP, Interrupt, ShutdownReturns, Exit, ShutdownRecorders
<1> QED
  BY <1>3, <1>5, <1>6, <1>7 DEF IInv

\* AutoStart skips a port.
LEMMA BootSkipIInv == ASSUME IInv, BootSkip PROVE IInv'
<1>1. /\ UNCHANGED <<phase, servers, recorders, created, srv, rec, req, missed, last>>
      /\ boot' = NextPort /\ boot.at = "check" /\ boot.i <= Len(BootPorts)
  BY DEF BootSkip, Booting
<1>2. Known' = Known
  BY <1>1 DEF Known
<1>3. TypeMain' /\ boot'.at = "check" /\ boot'.srv = 0 /\ boot.srv = 0
  BY <1>1 DEF IInv, TypeOK, TypeMain, NextPort
<1>4. TypeMaps' /\ TypeServers' /\ TypeRequests'
  BY <1>1 DEF IInv, TypeOK, TypeMaps, TypeServers, TypeRequests
<1>5. BootInv' /\ RunningIsMapped'
  BY <1>1, <1>2, <1>3 DEF IInv, BootInv, RunningIsMapped
<1>6. RecorderInv' /\ ExitInv'
  BY <1>1, <1>2, <1>3 DEF IInv, RecorderInv, ExitInv
<1> QED
  BY <1>3, <1>4, <1>5, <1>6 DEF IInv, TypeOK

\* The device of AutoStart's current port is a device.
LEMMA BootDeviceIsDevice == ASSUME IInv, NEW at, Booting(at) PROVE BootDevice \in Devices /\ boot.at = at
  BY DEF IInv, TypeOK, TypeMain, Booting, BootDevice

\* AutoStart creates a server for a device that is not in the map.
LEMMA BootStartIInv == ASSUME IInv, BootStart PROVE IInv'
<1> DEFINE d == BootDevice
<1> DEFINE n == created'
<1>0. /\ Known \subseteq Srv
      /\ \A e \in Devices : /\ servers[e] # 0 => servers[e] \in Known /\ srv[servers[e]].dev = e
                            /\ recorders[e] # 0 => recorders[e] \in Known
      /\ \A i \in Srv : srv[i] \in ServerState
  BY Numbers
<1>1. /\ d \in Devices /\ servers[d] = 0 /\ Create(d) /\ phase = "boot" /\ boot.at = "check"
      /\ boot.i <= Len(BootPorts) /\ boot' = [boot EXCEPT !.at = "record", !.srv = created + 1]
      /\ UNCHANGED <<phase, servers, recorders, rec, req, missed, last>>
  BY BootDeviceIsDevice DEF BootStart, Booting, AlreadyBooted
<1>2. /\ TypeServers' /\ n = created + 1 /\ n \in Srv /\ n \notin Known
      /\ Known' = Known \union {n} /\ Known' \subseteq Srv /\ srv'[n] = Started(d)
      /\ \A j \in Srv : j # n => srv'[j] = srv[j]
  BY <1>1, CreateFacts
<1>3. srv'[n].dev = d /\ srv'[n].running = TRUE
  BY <1>2 DEF Started
<1>4. /\ boot \in [i : 1..Len(BootPorts) + 1, at : {"check", "record", "store"}, srv : 0..MaxServers]
      /\ boot.srv = 0
  BY <1>1 DEF IInv, TypeOK, TypeMain
<1>5. boot'.i = boot.i /\ boot'.at = "record" /\ boot'.srv = n /\ BootDevice' = d
  BY <1>1, <1>2, <1>4 DEF BootDevice
<1>6. TypeMain'
  <2>1. n \in 0..MaxServers /\ n # 0
    BY <1>2 DEF Srv
  <2>2. boot' \in [i : 1..Len(BootPorts) + 1, at : {"check", "record", "store"}, srv : 0..MaxServers]
    BY <1>1, <1>2, <1>4, <2>1
  <2> QED
    BY <1>1, <1>5, <2>1, <2>2 DEF TypeMain, IInv, TypeOK
<1>7. \A e \in Devices : servers[e] # n /\ recorders[e] # n
  <2>1. n # 0
    BY <1>2 DEF Srv
  <2>2. n \notin Known
    BY <1>2
  <2>3. ASSUME NEW e \in Devices PROVE servers[e] # n
    BY <1>0, <2>1, <2>2
  <2>4. ASSUME NEW e \in Devices PROVE recorders[e] # n
    BY <1>0, <2>1, <2>2
  <2> QED
    BY <2>3, <2>4
<1>8. TypeMaps'
  <2>1. /\ created' \in 0..MaxServers /\ last' \in 0..created'
        /\ servers' \in [Devices -> 0..created'] /\ recorders' \in [Devices -> 0..created']
    BY <1>1, <1>2 DEF IInv, TypeOK, TypeMaps, Srv
  <2>2. ASSUME NEW e \in Devices, servers[e] # 0 PROVE srv'[servers[e]].dev = e
    <3>1. servers[e] \in Srv /\ servers[e] # n /\ srv[servers[e]].dev = e
      BY <1>0, <1>7, <2>2
    <3> QED
      BY <1>2, <3>1
  <2> QED
    BY <1>1, <2>1, <2>2 DEF TypeMaps
<1>9. TypeRequests'
  BY <1>1 DEF IInv, TypeOK, TypeRequests
<1>10. BootInv'
  BY <1>1, <1>2, <1>3, <1>5 DEF BootInv
<1>11. RunningIsMapped'
  <2>1. \A i \in Known : i # n /\ srv'[i] = srv[i] /\ srv[i].dev \in Devices
    BY <1>0, <1>2 DEF ServerState
  <2>2. \A i \in Known : srv'[i].running <=> (servers'[srv'[i].dev] = i \/ boot'.srv = i)
    <3>1. \A i \in Known : i # 0
      BY <1>0 DEF Srv
    <3> QED
      BY <1>1, <1>4, <1>5, <2>1, <3>1 DEF IInv, RunningIsMapped
  <2>3. srv'[n].running <=> (servers'[srv'[n].dev] = n \/ boot'.srv = n)
    BY <1>3, <1>5
  <2> QED
    BY <1>2, <2>2, <2>3 DEF RunningIsMapped
<1>12. RecorderInv'
  <2>1. rec[n] = "none"
    BY <1>2 DEF IInv, RecorderInv
  <2>2. \A i \in Known : rec'[i] = "on" => recorders'[srv'[i].dev] = i
    BY <1>1, <1>2, Numbers DEF IInv, RecorderInv
  <2>3. ASSUME NEW e \in Devices, recorders[e] # 0 PROVE srv'[recorders[e]].dev = e
    <3>1. recorders[e] \in Srv /\ recorders[e] # n /\ srv[recorders[e]].dev = e
      BY <1>0, <1>7, <2>3 DEF IInv, RecorderInv
    <3> QED
      BY <1>2, <3>1
  <2> QED
    BY <1>1, <1>2, <2>1, <2>2, <2>3 DEF IInv, RecorderInv
<1>13. ExitInv'
  BY <1>1 DEF ExitInv
<1> QED
  BY <1>2, <1>6, <1>8, <1>9, <1>10, <1>11, <1>12, <1>13 DEF IInv, TypeOK

\* AutoStart opens the recorder of the server it has created, or fails to.
LEMMA BootRecordIInv == ASSUME IInv, BootRecord PROVE IInv'
<1> DEFINE n == boot.srv
<1>0. /\ Known \subseteq Srv
      /\ \A e \in Devices : /\ servers[e] # 0 => servers[e] \in Known /\ srv[servers[e]].dev = e
                            /\ recorders[e] # 0 => recorders[e] \in Known
      /\ \A i \in Srv : srv[i] \in ServerState
  BY Numbers
<1>1. /\ boot.at = "record" /\ boot' = [boot EXCEPT !.at = "store"]
      /\ UNCHANGED <<phase, servers, recorders, created, req, missed, last>>
      /\ rec' = rec \/ rec' = [rec EXCEPT ![n] = "on"]
      /\ srv' = srv \/ srv' = [srv EXCEPT ![n].recorded = TRUE]
  BY DEF BootRecord, Booting
<1>2. /\ boot \in [i : 1..Len(BootPorts) + 1, at : {"check", "record", "store"}, srv : 0..MaxServers]
      /\ rec \in [Srv -> {"none", "on", "stopped"}] /\ srv \in [Srv -> ServerState]
  BY DEF IInv, TypeOK, TypeMain, TypeServers, ServerState
<1>3. boot'.at = "store" /\ boot'.srv = n /\ boot'.i = boot.i /\ BootDevice' = BootDevice
  BY <1>1, <1>2 DEF BootDevice
<1>4. n \in Known /\ n \in Srv
  BY <1>0, <1>1 DEF IInv, BootInv
<1>5. rec' \in [Srv -> {"none", "on", "stopped"}] /\ \A i \in Srv : i # n => rec'[i] = rec[i]
  BY <1>1, <1>2, <1>4
<1>6. TypeServers' /\ \A i \in Srv : srv'[i].dev = srv[i].dev /\ srv'[i].running = srv[i].running
  <2>1. CASE srv' = srv
    BY <1>1, <1>2, <1>5, <2>1 DEF TypeServers, IInv, TypeOK
  <2>2. CASE srv' = [srv EXCEPT ![n].recorded = TRUE]
    <3> DEFINE t == [srv[n] EXCEPT !.recorded = TRUE]
    <3>1. srv' = [srv EXCEPT ![n] = t]
      BY <2>2
    <3>2. t \in ServerState /\ t.dev = srv[n].dev /\ t.running = srv[n].running
      <4>1. srv[n] \in ServerState
        BY <1>0, <1>4
      <4> QED
        BY <4>1 DEF ServerState
    <3>3. TypeServers
      BY DEF IInv, TypeOK
    <3>4. n \in Srv => t \in ServerState
      BY <3>2
    <3>5. rec' \in [Srv -> {"none", "on", "stopped"}] /\ missed' = missed
      BY <1>1, <1>5
    <3> HIDE DEF t, n
    <3>6. TypeServers' /\ \A j \in Srv : srv'[j] = IF j = n THEN t ELSE srv[j]
      BY <3>1, <3>3, <3>4, <3>5, ServerUpdate
    <3> QED
      BY <3>2, <3>6
  <2> QED
    BY <1>1, <2>1, <2>2
<1>7. TypeMain'
  <2>1. n # 0
    BY <1>4 DEF Srv
  <2> QED
    BY <1>1, <1>2, <1>3, <2>1 DEF TypeMain, IInv, TypeOK
<1>8. TypeMaps'
  <2>1. ASSUME NEW e \in Devices, servers[e] # 0 PROVE srv'[servers[e]].dev = e
    BY <1>0, <1>6, <2>1
  <2> QED
    BY <1>1, <2>1 DEF IInv, TypeOK, TypeMaps
<1>9. TypeRequests'
  BY <1>1 DEF IInv, TypeOK, TypeRequests
<1>10. Known' = Known
  BY <1>1 DEF Known
<1>11. BootInv'
  BY <1>1, <1>3, <1>4, <1>6, <1>10 DEF IInv, BootInv
<1>12. RunningIsMapped'
  BY <1>0, <1>1, <1>3, <1>6, <1>10 DEF IInv, RunningIsMapped
<1>13. RecorderInv'
  <2>1. ASSUME NEW i \in Known, rec'[i] = "on"
        PROVE  recorders'[srv'[i].dev] = i \/ (boot'.srv = i /\ boot'.at = "store")
    BY <1>0, <1>1, <1>3, <1>5, <1>6, <2>1 DEF IInv, RecorderInv
  <2>2. ASSUME NEW e \in Devices, recorders[e] # 0 PROVE srv'[recorders[e]].dev = e
    BY <1>0, <1>6, <2>2 DEF IInv, RecorderInv
  <2>3. \A i \in Srv \ Known : rec'[i] = "none"
    BY <1>4, <1>5 DEF IInv, RecorderInv
  <2> QED
    BY <1>1, <1>10, <2>1, <2>2, <2>3 DEF IInv, RecorderInv
<1>14. ExitInv'
  BY <1>1 DEF IInv, ExitInv
<1> QED
  BY <1>6, <1>7, <1>8, <1>9, <1>11, <1>12, <1>13, <1>14 DEF IInv, TypeOK

\* AutoStart stores the server; its device was still free.
LEMMA BootStoreIInv == ASSUME IInv, BootStore PROVE IInv'
<1> DEFINE n == boot.srv
<1> DEFINE d == BootDevice
<1>0. /\ Known \subseteq Srv
      /\ \A e \in Devices : /\ servers[e] # 0 => servers[e] \in Known /\ srv[servers[e]].dev = e
                            /\ recorders[e] # 0 => recorders[e] \in Known
      /\ \A i \in Srv : srv[i] \in ServerState
  BY Numbers
<1>1. /\ d \in Devices /\ boot.at = "store" /\ boot.i <= Len(BootPorts) /\ boot' = NextPort
      /\ UNCHANGED <<phase, created, srv, rec, req, missed, last>>
      /\ servers' = [servers EXCEPT ![d] = n]
      /\ recorders' = [recorders EXCEPT ![d] = IF rec[n] = "on" THEN n ELSE recorders[d]]
  BY BootDeviceIsDevice DEF BootStore, Booting
<1>2. phase = "boot" /\ servers[d] = 0 /\ n \in Known /\ n \in Srv /\ srv[n].dev = d
  BY <1>0, <1>1 DEF IInv, BootInv
<1>3. boot'.at = "check" /\ boot'.srv = 0 /\ TypeMain'
  BY <1>1, <1>2 DEF IInv, TypeOK, TypeMain, NextPort
<1>4. created \in 0..MaxServers /\ n \in 0..created /\ n # 0
      /\ servers \in [Devices -> 0..created] /\ recorders \in [Devices -> 0..created]
  BY <1>2 DEF IInv, TypeOK, TypeMaps, Known, Srv
<1>5. recorders[d] = 0
  BY <1>1, <1>2 DEF IInv, RecorderInv
<1>6. /\ servers' \in [Devices -> 0..created] /\ recorders' \in [Devices -> 0..created]
      /\ servers'[d] = n /\ recorders'[d] = IF rec[n] = "on" THEN n ELSE 0
      /\ \A e \in Devices : e # d => servers'[e] = servers[e] /\ recorders'[e] = recorders[e]
  BY <1>1, <1>4, <1>5
<1>7. TypeMaps' /\ TypeServers' /\ TypeRequests'
  <2>1. ASSUME NEW e \in Devices, servers'[e] # 0 PROVE srv[servers'[e]].dev = e
    BY <1>0, <1>2, <1>6, <2>1
  <2> QED
    BY <1>1, <1>4, <1>6, <2>1 DEF IInv, TypeOK, TypeMaps, TypeServers, TypeRequests
<1>8. Known' = Known
  BY <1>1 DEF Known
<1>9. RunningIsMapped'
  <2>1. ASSUME NEW i \in Known PROVE srv[i].running <=> servers'[srv[i].dev] = i
    <3>1. srv[i].dev \in Devices
      BY <1>0 DEF ServerState
    <3>2. srv[i].running <=> (servers[srv[i].dev] = i \/ n = i)
      BY DEF IInv, RunningIsMapped
    <3>3. i # 0
      BY <1>0 DEF Srv
    <3> QED
      BY <1>2, <1>6, <3>1, <3>2, <3>3
  <2>2. \A i \in Known : i # 0
    BY <1>0 DEF Srv
  <2> QED
    BY <1>1, <1>3, <1>8, <2>1, <2>2 DEF RunningIsMapped
<1>10. RecorderInv'
  <2>1. ASSUME NEW i \in Known, rec[i] = "on" PROVE recorders'[srv[i].dev] = i
    <3>1. srv[i].dev \in Devices /\ i # 0
      BY <1>0 DEF ServerState, Srv
    <3>2. recorders[srv[i].dev] = i \/ i = n
      BY <2>1 DEF IInv, RecorderInv
    <3> QED
      BY <1>2, <1>5, <1>6, <2>1, <3>1, <3>2
  <2>2. ASSUME NEW e \in Devices, recorders'[e] # 0 PROVE srv[recorders'[e]].dev = e /\ servers'[e] # 0
    <3>1. CASE e = d
      BY <1>2, <1>4, <1>6, <2>2, <3>1
    <3>2. CASE e # d
      BY <1>2, <1>6, <2>2, <3>2 DEF IInv, RecorderInv
    <3> QED
      BY <3>1, <3>2
  <2> QED
    BY <1>1, <1>8, <2>1, <2>2 DEF IInv, RecorderInv
<1>11. BootInv' /\ ExitInv'
  BY <1>1, <1>2, <1>3 DEF BootInv, ExitInv
<1> QED
  BY <1>3, <1>7, <1>9, <1>10, <1>11 DEF IInv, TypeOK

\* AddMapping creates and stores under the lock.
LEMMA AddMappingIInv == ASSUME IInv, NEW c \in Clients, NEW d \in Devices, AddMapping(c, d) PROVE IInv'
<1> DEFINE n == created'
<1>0. /\ Known \subseteq Srv
      /\ \A e \in Devices : /\ servers[e] # 0 => servers[e] \in Known /\ srv[servers[e]].dev = e
                            /\ recorders[e] # 0 => recorders[e] \in Known
      /\ \A i \in Srv : srv[i] \in ServerState
  BY Numbers
<1>1. /\ LockFree /\ servers[d] = 0 /\ Create(d)
      /\ servers' = [servers EXCEPT ![d] = created + 1]
      /\ UNCHANGED <<phase, boot, recorders, rec, req, missed, last>>
  BY DEF AddMapping, Call, MayAdd
<1>2. /\ TypeServers' /\ n = created + 1 /\ n \in Srv /\ n \notin Known
      /\ Known' = Known \union {n} /\ Known' \subseteq Srv /\ srv'[n] = Started(d)
      /\ \A j \in Srv : j # n => srv'[j] = srv[j]
  BY <1>1, CreateFacts
<1>3. srv'[n].dev = d /\ srv'[n].running = TRUE
  BY <1>2 DEF Started
<1>4. boot.at = "check" /\ boot.srv = 0 /\ TypeMain'
  BY <1>1 DEF IInv, TypeOK, TypeMain, BootInv, LockFree
<1>5. n # 0 /\ \A i \in Known : i # 0 /\ i # n
  BY <1>0, <1>2 DEF Srv
<1>6. /\ servers' \in [Devices -> 0..n] /\ recorders' \in [Devices -> 0..n] /\ servers'[d] = n
      /\ \A e \in Devices : e # d => servers'[e] = servers[e]
      /\ n \in 0..MaxServers /\ last' \in 0..n
  BY <1>1, <1>2 DEF IInv, TypeOK, TypeMaps, Srv
<1>7. TypeMaps' /\ TypeRequests'
  <2>1. ASSUME NEW e \in Devices, servers'[e] # 0 PROVE srv'[servers'[e]].dev = e
    <3>1. CASE e = d
      BY <1>3, <1>6, <3>1
    <3>2. CASE e # d
      <4>1. servers[e] \in Srv /\ servers[e] # n /\ srv[servers[e]].dev = e /\ servers'[e] = servers[e]
        BY <1>0, <1>5, <1>6, <2>1, <3>2
      <4> QED
        BY <1>2, <4>1
    <3> QED
      BY <3>1, <3>2
  <2> QED
    BY <1>1, <1>6, <2>1 DEF IInv, TypeOK, TypeMaps, TypeRequests
<1>8. RunningIsMapped'
  <2>1. ASSUME NEW i \in Known PROVE srv'[i].running <=> servers'[srv'[i].dev] = i
    <3>1. srv[i].dev \in Devices /\ srv'[i] = srv[i] /\ i # 0 /\ i # n
      BY <1>0, <1>2, <1>5 DEF ServerState
    <3>2. srv[i].running <=> servers[srv[i].dev] = i
      BY <1>4, <3>1 DEF IInv, RunningIsMapped
    <3> QED
      BY <1>1, <1>6, <3>1, <3>2
  <2>2. srv'[n].running /\ servers'[srv'[n].dev] = n
    BY <1>3, <1>6
  <2>3. boot'.srv = 0
    BY <1>1, <1>4
  <2>4. \A i \in Known' : srv'[i].running <=> servers'[srv'[i].dev] = i
    BY <1>2, <2>1, <2>2
  <2>5. \A i \in Known' : i # 0
    BY <1>2, <1>5
  <2> QED
    BY <2>3, <2>4, <2>5 DEF RunningIsMapped
<1>9. RecorderInv'
  <2>1. ASSUME NEW i \in Known, rec[i] = "on" PROVE recorders[srv'[i].dev] = i
    BY <1>0, <1>2, <1>4, <1>5, <2>1 DEF IInv, RecorderInv
  <2>2. ASSUME NEW e \in Devices, recorders[e] # 0 PROVE srv'[recorders[e]].dev = e
    <3>1. recorders[e] \in Srv /\ recorders[e] # n /\ srv[recorders[e]].dev = e
      BY <1>0, <1>5, <2>2 DEF IInv, RecorderInv
    <3> QED
      BY <1>2, <3>1
  <2>3. rec[n] = "none"
    BY <1>2 DEF IInv, RecorderInv
  <2> QED
    BY <1>1, <1>2, <2>1, <2>2, <2>3 DEF IInv, RecorderInv
<1>10. BootInv' /\ ExitInv'
  <2>1. n \notin 1..last
    BY <1>2 DEF IInv, TypeOK, TypeMaps
  <2> QED
    BY <1>1, <1>4, <1>6, <2>1 DEF IInv, BootInv, ExitInv
<1> QED
  BY <1>2, <1>4, <1>7, <1>8, <1>9, <1>10 DEF IInv, TypeOK

\* RemoveMapping, and Shutdown's stop of one server: the server that is taken
\* out of the map is the one that is stopped.
LEMMA UnmapIInv ==
    ASSUME IInv, NEW d \in Devices, servers[d] # 0, LockFree \/ phase = "stopping",
           srv' = [srv EXCEPT ![servers[d]] = Stopped(srv[servers[d]])],
           servers' = [servers EXCEPT ![d] = 0],
           UNCHANGED <<phase, boot, recorders, created, rec, req, missed, last>>
    PROVE  IInv'
<1> DEFINE n == servers[d]
<1>0. /\ Known \subseteq Srv /\ created \in 0..MaxServers
      /\ \A e \in Devices : /\ servers[e] # 0 => servers[e] \in Known /\ srv[servers[e]].dev = e
                            /\ recorders[e] # 0 => recorders[e] \in Known
      /\ \A i \in Srv : srv[i] \in ServerState
  BY Numbers
<1>1. n \in Known /\ n \in Srv /\ srv[n].dev = d
  BY <1>0
<1>2. /\ TypeServers' /\ srv'[n].dev = srv[n].dev /\ srv'[n].running = FALSE
      /\ \A j \in Srv : j # n => srv'[j] = srv[j]
  BY <1>1, StopFacts
<1>3. boot.at = "check" /\ boot.srv = 0 /\ TypeMain'
  BY DEF IInv, TypeOK, TypeMain, BootInv, LockFree
<1>4. /\ servers' \in [Devices -> 0..created] /\ servers'[d] = 0
      /\ \A e \in Devices : e # d => servers'[e] = servers[e]
  BY DEF IInv, TypeOK, TypeMaps
<1>5. \A i \in Srv : srv'[i].dev = srv[i].dev
  BY <1>2
<1>6. TypeMaps' /\ TypeRequests'
  <2>1. ASSUME NEW e \in Devices, servers'[e] # 0 PROVE srv'[servers'[e]].dev = e
    BY <1>0, <1>4, <1>5, <2>1
  <2> QED
    BY <1>4, <2>1 DEF IInv, TypeOK, TypeMaps, TypeRequests
<1>7. Known' = Known
  BY DEF Known
<1>8. RunningIsMapped'
  <2>1. ASSUME NEW i \in Known PROVE srv'[i].running <=> servers'[srv'[i].dev] = i
    <3>1. srv[i].dev \in Devices /\ srv'[i].dev = srv[i].dev /\ i # 0 /\ i \in Srv
      BY <1>0, <1>5 DEF ServerState, Srv
    <3>2. srv[i].running <=> servers[srv[i].dev] = i
      BY <1>3, <3>1 DEF IInv, RunningIsMapped
    <3>3. CASE i = n
      BY <1>1, <1>2, <1>4, <3>1, <3>3
    <3>4. CASE i # n /\ srv[i].dev = d
      BY <1>2, <1>4, <3>1, <3>2, <3>4
    <3>5. CASE i # n /\ srv[i].dev # d
      BY <1>2, <1>4, <3>1, <3>2, <3>5
    <3> QED
      BY <3>3, <3>4, <3>5
  <2>2. \A i \in Known : i # 0
    BY <1>0 DEF Srv
  <2> QED
    BY <1>3, <1>7, <2>1, <2>2 DEF RunningIsMapped
<1>9. RecorderInv'
  BY <1>0, <1>3, <1>5, <1>7 DEF IInv, RecorderInv, LockFree
<1>10. BootInv' /\ ExitInv'
  BY <1>3, <1>4 DEF IInv, BootInv, ExitInv
<1> QED
  BY <1>2, <1>3, <1>6, <1>8, <1>9, <1>10 DEF IInv, TypeOK

\* Shutdown's stop of one recorder.
LEMMA StopRecorderIInv == ASSUME IInv, NEW d \in Devices, StopRecorder(d) PROVE IInv'
<1> DEFINE n == recorders[d]
<1>0. /\ Known \subseteq Srv /\ created \in 0..MaxServers
      /\ \A e \in Devices : /\ servers[e] # 0 => servers[e] \in Known /\ srv[servers[e]].dev = e
                            /\ recorders[e] # 0 => recorders[e] \in Known
      /\ \A i \in Srv : srv[i] \in ServerState
  BY Numbers
<1>1. /\ phase = "stopping" /\ n # 0 /\ rec' = [rec EXCEPT ![n] = "stopped"]
      /\ recorders' = [recorders EXCEPT ![d] = 0]
      /\ UNCHANGED <<phase, boot, servers, created, srv, req, missed, last>>
  BY DEF StopRecorder, ShutdownRecorders
<1>2. n \in Known /\ n \in Srv
  BY <1>0, <1>1
<1>3. boot.at = "check" /\ boot.srv = 0 /\ TypeMain'
  BY <1>1 DEF IInv, TypeOK, TypeMain, BootInv
<1>4. /\ recorders' \in [Devices -> 0..created] /\ recorders'[d] = 0
      /\ \A e \in Devices : e # d => recorders'[e] = recorders[e]
      /\ rec' \in [Srv -> {"none", "on", "stopped"}] /\ rec'[n] = "stopped"
      /\ \A i \in Srv : i # n => rec'[i] = rec[i]
  BY <1>1, <1>2 DEF IInv, TypeOK, TypeMaps, TypeServers
<1>5. TypeMaps' /\ TypeServers' /\ TypeRequests'
  BY <1>1, <1>4 DEF IInv, TypeOK, TypeMaps, TypeServers, TypeRequests
<1>6. Known' = Known
  BY <1>1 DEF Known
<1>7. RunningIsMapped'
  BY <1>1, <1>6 DEF IInv, RunningIsMapped
<1>8. RecorderInv'
  <2>1. ASSUME NEW i \in Known, rec'[i] = "on" PROVE recorders'[srv[i].dev] = i
    <3>1. i # n /\ rec[i] = "on" /\ srv[i].dev \in Devices
      BY <1>0, <1>4, <2>1 DEF ServerState
    <3>2. recorders[srv[i].dev] = i
      BY <1>3, <3>1 DEF IInv, RecorderInv
    <3> QED
      BY <1>4, <3>1, <3>2
  <2>2. \A e \in Devices : recorders'[e] # 0 => srv[recorders'[e]].dev = e
    BY <1>4 DEF IInv, RecorderInv
  <2>3. \A i \in Srv \ Known : rec'[i] = "none"
    BY <1>2, <1>4 DEF IInv, RecorderInv
  <2> QED
    BY <1>1, <1>6, <2>1, <2>2, <2>3 DEF RecorderInv
<1>9. BootInv' /\ ExitInv'
  BY <1>1, <1>3 DEF BootInv, ExitInv
<1> QED
  BY <1>3, <1>5, <1>7, <1>8, <1>9 DEF IInv, TypeOK

-----------------------------------------------------------------------------
\* Every step of the gateway preserves the inductive invariant.
LEMMA StepIInv == IInv /\ [Next]_vars => IInv'
<1> SUFFICES ASSUME IInv, [Next]_vars PROVE IInv'
  OBVIOUS
<1>1. CASE Main
  <2>1. ASSUME NEW d \in Devices, StopMapped(d) PROVE IInv'
    BY <2>1, UnmapIInv DEF StopMapped
  <2> QED
    BY <1>1, <2>1, BootSkipIInv, BootStartIInv, BootRecordIInv, BootStoreIInv, PhaseIInv,
       StopRecorderIInv DEF Main
<1>2. ASSUME NEW c \in Clients, Request(c) PROVE IInv'
  <2>1. ASSUME NEW d \in Devices, RemoveMapping(c, d) PROVE IInv'
    BY <2>1, UnmapIInv DEF RemoveMapping, Call
  <2> QED
    BY <1>2, <2>1, AddMappingIInv, OpenSessionIInv, RequestIInv DEF Request
<1>3. ASSUME NEW i \in Known, Server(i) PROVE IInv'
  BY <1>3, ServerIInv
<1>4. CASE UNCHANGED vars
  <2>1. UNCHANGED <<phase, boot, servers, recorders, created, rec, last>> /\ srv' = srv
        /\ TypeServers' /\ TypeRequests'
    BY <1>4 DEF vars, IInv, TypeOK, TypeServers, TypeRequests
  <2> QED
    BY <2>1, SameServers
<1> QED
  BY <1>1, <1>2, <1>3, <1>4 DEF Next

\* The inductive invariant holds throughout.
LEMMA SpecIInv == Spec => []IInv
  BY InitIInv, StepIInv, PTL DEF Spec

\* The types, and the place of AutoStart's server, for any configuration.
THEOREM TypeCorrect == Spec => []TypeOK
<1>1. IInv => TypeOK
  BY DEF IInv
<1> QED
  BY <1>1, SpecIInv, PTL

\* However AutoStart, requests and Shutdown interleave, a server runs exactly
\* while the map holds it or AutoStart is about to store it (portmanager.go:32-64).
THEOREM ServersAreMapped == Spec => []RunningIsMapped
<1>1. IInv => RunningIsMapped
  BY DEF IInv
<1> QED
  BY <1>1, SpecIInv, PTL

\* No two recorders of one device are ever on, though recorders outlive their
\* mappings (portmanager.go:45-51, 107-117).
THEOREM RecordersAreSingle == Spec => []OneRecorderPerFile
<1>1. IInv => OneRecorderPerFile
  <2> SUFFICES ASSUME IInv, NEW i \in Known, NEW j \in Known, rec[i] = "on", rec[j] = "on",
                      srv[i].dev = srv[j].dev
               PROVE  i = j
    BY DEF OneRecorderPerFile
  <2>1. srv[i].dev \in Devices /\ i # 0 /\ j # 0
    BY Numbers DEF ServerState, Srv
  <2>2. ASSUME NEW k \in Known, boot.srv = k, boot.at = "store" PROVE recorders[srv[k].dev] = 0
    <3>1. phase = "boot" /\ servers[BootDevice] = 0 /\ srv[k].dev = BootDevice /\ srv[k].dev \in Devices
      BY <2>2, Numbers DEF IInv, BootInv, ServerState
    <3> QED
      BY <3>1 DEF IInv, RecorderInv
  <2>3. (recorders[srv[i].dev] = i \/ (boot.srv = i /\ boot.at = "store"))
        /\ (recorders[srv[j].dev] = j \/ (boot.srv = j /\ boot.at = "store"))
    BY DEF IInv, RecorderInv
  <2> QED
    BY <2>1, <2>2, <2>3
<1> QED
  BY <1>1, SpecIInv, PTL

\* When Shutdown has returned, and until the process ends, every recorder ever
\* opened was told to drain and every server created until then is stopped,
\* whatever the requests that waited for the lock do (portmanager.go:119-130).
THEOREM ShutdownCompletes == Spec => []ShutdownIsComplete
<1>1. IInv => ShutdownIsComplete
  <2> SUFFICES ASSUME IInv, phase \in {"unlocked", "exited"}, NEW i \in Known
               PROVE  rec[i] # "on" /\ (srv[i].running => i > last)
    BY DEF ShutdownIsComplete
  <2>1. srv[i].dev \in Devices /\ i \in Nat \ {0} /\ last \in Nat
    BY Numbers DEF ServerState, Srv, IInv, TypeOK, TypeMaps
  <2>2. boot.at = "check" /\ boot.srv = 0
    BY DEF IInv, BootInv, TypeOK, TypeMain
  <2>3. servers[srv[i].dev] \notin 1..last /\ recorders[srv[i].dev] = 0
    BY <2>1 DEF IInv, ExitInv
  <2>4. rec[i] # "on"
    BY <2>1, <2>2, <2>3 DEF IInv, RecorderInv
  <2>5. srv[i].running => i > last
    <3>1. srv[i].running => servers[srv[i].dev] = i
      BY <2>1, <2>2 DEF IInv, RunningIsMapped
    <3> QED
      BY <2>1, <2>3, <3>1
  <2> QED
    BY <2>4, <2>5
<1> QED
  BY <1>1, SpecIInv, PTL
=============================================================================
