---------------------------- MODULE PortManager ----------------------------
(***************************************************************************)
(* core.PortManager with its callers: main boots the configured ports,     *)
(* brings HTTP up and shuts down on an interrupt; HTTP requests, which      *)
(* nothing stops before the process ends, add, remove, list and look up     *)
(* mappings; SSH clients reach a server's session directly.  A server       *)
(* (ssh.SSHServer, with its SerialSession) is a number in the order of      *)
(* creation, 0 is nil.  The session is abstracted to "has the device open"; *)
(* its own life is SerialSession.tla, the recorder's is FileRecorder.tla.   *)
(*                                                                         *)
(* pm.mu: every operation of the manager is one critical section, hence    *)
(* one action, but Shutdown, whose steps other goroutines see; while it    *)
(* runs no operation of the manager is possible.  AutoStart takes the lock *)
(* only to store (BootStore), so each of its steps is an action.           *)
(***************************************************************************)
EXTENDS Naturals, Sequences

CONSTANTS Devices,      \* names of serial devices
          PortOf,       \* the SSH port PortMapping gives a device; 0: none
          BootPorts,    \* cfg.Ports, which may repeat a device
          Clients,      \* HTTP requests and SSH sessions in flight
          MaxServers    \* bound: servers created in a behaviour

ASSUME PortManagerAssumption ==
    /\ Devices # {}
    /\ PortOf \in [Devices -> Nat]
    /\ BootPorts \in Seq(Devices)
    /\ MaxServers \in Nat \ {0}

VARIABLES phase,        \* main: "boot", "serving"; "stopping": in Shutdown;
                        \* "unlocked": Shutdown has returned; "exited"
          boot,         \* AutoStart's loop: index, step, server being started
          servers,      \* pm.servers
          recorders,    \* pm.recorders, by the server each was created for
          created,      \* number of servers created so far
          srv,          \* the servers
          rec,          \* the file recorder created for a server
          req,          \* the requests
          missed,       \* servers that read output while no recorder was set
          last          \* history: the last server created before Shutdown returned

vars == <<phase, boot, servers, recorders, created, srv, rec, req, missed, last>>

Srv == 1..MaxServers
Known == 1..created
Idle == [at |-> "idle", srv |-> 0, todo |-> {}]

NotCreated == [dev |-> CHOOSE d \in Devices : TRUE, running |-> FALSE,
               listener |-> "none", open |-> FALSE, recorded |-> FALSE]

Init == /\ phase = "boot"
        /\ boot = [i |-> 1, at |-> "check", srv |-> 0]
        /\ servers = [d \in Devices |-> 0]
        /\ recorders = [d \in Devices |-> 0]
        /\ created = 0
        /\ srv = [i \in Srv |-> NotCreated]
        /\ rec = [i \in Srv |-> "none"]
        /\ req = [c \in Clients |-> Idle]
        /\ missed = {}
        /\ last = 0

----------------------------------------------------------------------------
(* ssh.SSHServer: Start leaves the listening to a goroutine; Stop closes    *)
(* the listener and the session, and does nothing the second time.          *)

Started(d) == [dev |-> d, running |-> TRUE, listener |-> "starting",
               open |-> FALSE, recorded |-> FALSE]

Stopped(s) ==
    IF s.running
    THEN [s EXCEPT !.running = FALSE, !.open = FALSE,
                   !.listener = IF @ = "starting" THEN @ ELSE "closed"]
    ELSE s

Create(d) == /\ created < MaxServers
             /\ created' = created + 1
             /\ srv' = [srv EXCEPT ![created + 1] = Started(d)]

(* ListenAndServe of the goroutine.  The port may be taken, by another      *)
(* server of the gateway or by another program; the error is only logged.   *)
(* A Close that came first may or may not stop it: that is the library's.   *)
Listen(i) ==
    /\ srv[i].listener = "starting"
    /\ LET taken == \E j \in Known : /\ srv[j].listener = "up"
                                     /\ PortOf[srv[j].dev] = PortOf[srv[i].dev]
           outcomes == {"failed"} \union (IF taken THEN {} ELSE {"up"})
                                  \union (IF srv[i].running THEN {} ELSE {"closed"})
       IN \E o \in outcomes : srv' = [srv EXCEPT ![i].listener = o]
    /\ UNCHANGED <<phase, boot, servers, recorders, created, rec, req, missed, last>>

----------------------------------------------------------------------------
(* AutoStart: a server and then a recorder for every configured port, in    *)
(* order; a port that fails is skipped.                                     *)

BootDevice == BootPorts[boot.i]
Booting(at) == phase = "boot" /\ boot.at = at /\ boot.i <= Len(BootPorts)
NextPort == [i |-> boot.i + 1, at |-> "check", srv |-> 0]

(* NewSSHServer and Start can fail: no port for the name, no host key.      *)
CanMap(d) == PortOf[d] # 0

AlreadyBooted_Never(d) == FALSE                                     \* Mutant

(* The duplicate guard of AutoStart.                                        *)
AlreadyBooted(d) == servers[d] # 0

BootSkip == /\ Booting("check")
            /\ boot' = NextPort     \* present, no port, or no host key
            /\ UNCHANGED <<phase, servers, recorders, created, srv, rec, req, missed, last>>

BootStart == /\ Booting("check")
             /\ ~AlreadyBooted(BootDevice)
             /\ CanMap(BootDevice)
             /\ Create(BootDevice)
             /\ boot' = [boot EXCEPT !.at = "record", !.srv = created + 1]
             /\ UNCHANGED <<phase, servers, recorders, rec, req, missed, last>>

BootRecord == /\ Booting("record")
              /\ boot' = [boot EXCEPT !.at = "store"]
              /\ \/ /\ rec' = [rec EXCEPT ![boot.srv] = "on"]
                    /\ srv' = [srv EXCEPT ![boot.srv].recorded = TRUE]
                 \/ UNCHANGED <<rec, srv>>      \* the file cannot be opened
              /\ UNCHANGED <<phase, servers, recorders, created, req, missed, last>>

BootStore == /\ Booting("store")
             /\ servers' = [servers EXCEPT ![BootDevice] = boot.srv]
             /\ recorders' = [recorders EXCEPT ![BootDevice] =
                                IF rec[boot.srv] = "on" THEN boot.srv ELSE @]
             /\ boot' = NextPort
             /\ UNCHANGED <<phase, created, srv, rec, req, missed, last>>

(* main starts the HTTP server only when AutoStart has returned.            *)
MayServeHTTP == boot.i > Len(BootPorts)

StartHTTP == /\ phase = "boot"
             /\ MayServeHTTP
             /\ phase' = "serving"
             /\ UNCHANGED <<boot, servers, recorders, created, srv, rec, req, missed, last>>

----------------------------------------------------------------------------
(* HTTP requests.                                                           *)

(* pm.mu is free for a request; one that waited for it in Shutdown gets it  *)
(* when Shutdown has returned.                                              *)
LockFree == phase \in {"serving", "unlocked"}

Call(c) == LockFree /\ req[c].at = "idle"

MayAdd_NoCheck(d) == CanMap(d)                                      \* Mutant
MayAdd(d) == servers[d] = 0 /\ CanMap(d)

(* AddMapping; a refused one, or one whose host key fails, changes nothing. *)
AddMapping(c, d) ==
    /\ Call(c)
    /\ MayAdd(d)
    /\ Create(d)
    /\ servers' = [servers EXCEPT ![d] = created + 1]
    /\ UNCHANGED <<phase, boot, recorders, rec, req, missed, last>>

(* The recorder, if there is one, stays in pm.recorders.                    *)
RemoveMapping(c, d) ==
    /\ Call(c)
    /\ servers[d] # 0
    /\ srv' = [srv EXCEPT ![servers[d]] = Stopped(@)]
    /\ servers' = [servers EXCEPT ![d] = 0]
    /\ UNCHANGED <<phase, boot, recorders, created, rec, req, missed, last>>

(* handleGetMappings: a snapshot of the devices, then a look-up of each, in *)
(* any order; a look-up that finds nil is dereferenced.                     *)
ListMappings(c) ==
    /\ Call(c)
    /\ LET mapped == {d \in Devices : servers[d] # 0}
       IN  /\ mapped # {}
           /\ req' = [req EXCEPT ![c] = [at |-> "list", srv |-> 0, todo |-> mapped]]
    /\ UNCHANGED <<phase, boot, servers, recorders, created, srv, rec, missed, last>>

LookedUp(r, d) == IF servers[d] = 0 THEN [Idle EXCEPT !.at = "panic"]
                  ELSE IF r.todo = {d} THEN Idle
                  ELSE [r EXCEPT !.todo = @ \ {d}]

ListNext(c, d) ==
    /\ req[c].at = "list"
    /\ LockFree                                 \* GetServer takes pm.mu
    /\ d \in req[c].todo
    /\ req' = [req EXCEPT ![c] = LookedUp(@, d)]
    /\ UNCHANGED <<phase, boot, servers, recorders, created, srv, rec, missed, last>>

(* net/http recovers the panic: the connection is lost, the gateway lives.  *)
Recovered(c) ==
    /\ req[c].at = "panic"
    /\ req' = [req EXCEPT ![c] = Idle]
    /\ UNCHANGED <<phase, boot, servers, recorders, created, srv, rec, missed, last>>

(* handleMappingDetail: the look-up, with the lock; the rest without it.    *)
GetServer(c, d) ==
    /\ Call(c)
    /\ servers[d] # 0
    /\ req' = [req EXCEPT ![c] = [Idle EXCEPT !.at = "held", !.srv = servers[d]]]
    /\ UNCHANGED <<phase, boot, servers, recorders, created, srv, rec, missed, last>>

(* An SSH client is accepted: handleSession, on this server.                *)
Accept(c, i) ==
    /\ phase # "exited"
    /\ req[c].at = "idle"
    /\ srv[i].listener = "up"
    /\ req' = [req EXCEPT ![c] = [Idle EXCEPT !.at = "held", !.srv = i]]
    /\ UNCHANGED <<phase, boot, servers, recorders, created, srv, rec, missed, last>>

(* `if !IsConnected() { Open() }' of handleWrite, handleExec, handleSession: *)
(* the device is exclusive; an Open that fails ends the request.            *)
HeldBy(i) == {j \in Known : srv[j].dev = srv[i].dev /\ srv[j].open}

OpenSession(c) ==
    /\ phase # "exited"
    /\ req[c].at = "held"
    /\ LET i == req[c].srv
       IN \/ /\ HeldBy(i) \subseteq {i}
             /\ srv' = [srv EXCEPT ![i].open = TRUE]
             /\ req' = [req EXCEPT ![c].at = "using"]
          \/ /\ ~srv[i].open
             /\ req' = [req EXCEPT ![c] = Idle]
             /\ UNCHANGED srv
    /\ UNCHANGED <<phase, boot, servers, recorders, created, rec, missed, last>>

EndRequest(c) ==
    /\ req[c].at = "using"
    /\ req' = [req EXCEPT ![c] = Idle]
    /\ UNCHANGED <<phase, boot, servers, recorders, created, srv, rec, missed, last>>

(* readLoop: a chunk goes to s.recorder if one is set.                      *)
ReadOutput(i) ==
    /\ phase # "exited"
    /\ srv[i].open
    /\ ~srv[i].recorded
    /\ missed' = missed \union {i}
    /\ UNCHANGED <<phase, boot, servers, recorders, created, srv, rec, req, last>>

----------------------------------------------------------------------------
(* Shutdown, under pm.mu: every recorder in the map, then every server.     *)

ShutdownRecorders_Mapped == {d \in Devices : recorders[d] # 0 /\ servers[d] # 0}  \* Mutant
ShutdownRecorders == {d \in Devices : recorders[d] # 0}

Interrupt == /\ phase = "serving"
             /\ phase' = "stopping"
             /\ UNCHANGED <<boot, servers, recorders, created, srv, rec, req, missed, last>>

StopRecorder(d) ==
    /\ phase = "stopping"
    /\ d \in ShutdownRecorders
    /\ rec' = [rec EXCEPT ![recorders[d]] = "stopped"]
    /\ recorders' = [recorders EXCEPT ![d] = 0]
    /\ UNCHANGED <<phase, boot, servers, created, srv, req, missed, last>>

StopMapped(d) ==
    /\ phase = "stopping"
    /\ ShutdownRecorders = {}
    /\ servers[d] # 0
    /\ srv' = [srv EXCEPT ![servers[d]] = Stopped(@)]
    /\ servers' = [servers EXCEPT ![d] = 0]
    /\ UNCHANGED <<phase, boot, recorders, created, rec, req, missed, last>>

(* The deferred Unlock.                                                     *)
ShutdownReturns ==
    /\ phase = "stopping"
    /\ ShutdownRecorders = {}
    /\ \A d \in Devices : servers[d] = 0
    /\ phase' = "unlocked" /\ last' = created
    /\ UNCHANGED <<boot, servers, recorders, created, srv, rec, req, missed>>

(* main returns, some time later; with it ends every goroutine.             *)
Exit == /\ phase = "unlocked"
        /\ phase' = "exited"
        /\ UNCHANGED <<boot, servers, recorders, created, srv, rec, req, missed, last>>

----------------------------------------------------------------------------
Main == BootSkip \/ BootStart \/ BootRecord \/ BootStore \/ StartHTTP
        \/ Interrupt \/ ShutdownReturns \/ Exit \/ \E d \in Devices : StopRecorder(d) \/ StopMapped(d)

Request(c) == \/ \E d \in Devices : \/ AddMapping(c, d) \/ RemoveMapping(c, d)
                                    \/ ListNext(c, d) \/ GetServer(c, d)
              \/ \E i \in Known : Accept(c, i)
              \/ ListMappings(c) \/ Recovered(c) \/ OpenSession(c) \/ EndRequest(c)

Server(i) == Listen(i) \/ ReadOutput(i)

Next == \/ Main
        \/ \E c \in Clients : Request(c)
        \/ \E i \in Known : Server(i)

Spec == Init /\ [][Next]_vars

----------------------------------------------------------------------------
TypeMain ==
    /\ phase \in {"boot", "serving", "stopping", "unlocked", "exited"}
    /\ boot \in [i : 1..Len(BootPorts) + 1, at : {"check", "record", "store"}, srv : 0..MaxServers]
    /\ boot.at = "check" <=> boot.srv = 0

TypeMaps ==
    /\ created \in 0..MaxServers /\ last \in 0..created
    /\ servers \in [Devices -> 0..created] /\ recorders \in [Devices -> 0..created]
    /\ \A d \in Devices : servers[d] # 0 => srv[servers[d]].dev = d

TypeServers ==
    /\ srv \in [Srv -> [dev : Devices, running : BOOLEAN, open : BOOLEAN, recorded : BOOLEAN,
                        listener : {"none", "starting", "up", "failed", "closed"}]]
    /\ rec \in [Srv -> {"none", "on", "stopped"}]
    /\ missed \subseteq Srv

TypeRequests ==
    req \in [Clients -> [at : {"idle", "list", "panic", "held", "using"},
                         srv : 0..MaxServers, todo : SUBSET Devices]]

(* The types; a server is in the map under its own device, and AutoStart's  *)
(* loop carries a server exactly between creating and storing it            *)
(* (portmanager.go:32-64).                                                  *)
TypeOK == TypeMain /\ TypeMaps /\ TypeServers /\ TypeRequests

(* No server runs that nobody can stop: a running server is the one the map *)
(* holds for its device, or the one AutoStart is about to store.  AutoStart *)
(* checks and stores without holding the lock in between; that this is safe *)
(* rests on main serving HTTP only afterwards (main.go:39,75).              *)
RunningIsMapped ==
    \A i \in Known : srv[i].running <=> (servers[srv[i].dev] = i \/ boot.srv = i)

(* Two recorders never write, and trim, the same file: recorders are named  *)
(* by device only (portmanager.go:32-34, 45-51).                            *)
OneRecorderPerFile ==
    \A i, j \in Known : rec[i] = "on" /\ rec[j] = "on" /\ srv[i].dev = srv[j].dev => i = j

(* Once Shutdown has returned, and when the process ends, every recorder     *)
(* ever opened was told to drain, those of mappings removed or replaced      *)
(* since included, and every server created until then is stopped: what runs *)
(* was added by a request that waited for the lock (portmanager.go:119-130). *)
ShutdownIsComplete ==
    phase \in {"unlocked", "exited"} =>
        \A i \in Known : rec[i] # "on" /\ (srv[i].running => i > last)

----------------------------------------------------------------------------
(* What the documents say and the code does not guarantee.                 *)

(* main performs "a clean shutdown - stopping reverse tunnels, closing       *)
(* serial sessions, and shutting down SSH servers"                          *)
(* (4-running-as-a-background-service.md:112): no server runs at the end.   *)
AllIsShutDown == phase = "exited" => \A i \in Known : ~srv[i].running

(* "RemoveMapping() | Lock | Exclusive - prevents use-after-delete"         *)
(* (17-portmanager-...md:240): no removed server has its device open.       *)
NoUseAfterDelete ==
    \A i \in Known : srv[i].open => srv[i].running

(* "A `nil` return indicates no mapping exists for the requested device,    *)
(* which the HTTP layer translates into a 404 response" (17-...md:205):     *)
(* no request dies of the nil server (handlers.go:73-79).                   *)
NilIsHandled == \A c \in Clients : req[c].at # "panic"

(* "Every byte read from a serial device is persisted to a per-device file" *)
(* (21-file-recorder-...md:1): nothing is read on a recorded mapping before *)
(* its recorder is set (portmanager.go:40,55).                              *)
RecordedFromTheStart == \A i \in missed : ~srv[i].recorded

(* "active" if an SSH server is currently running for this device           *)
(* (5-port-discovery-...md:84): a server IsRunning() whose listen failed    *)
(* serves nobody (server.go:117-123).                                       *)
ActiveIsServed ==
    \A i \in Known : srv[i].running => srv[i].listener # "failed"

=============================================================================
