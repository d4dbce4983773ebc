# SerialGateway in TLA+

SerialGateway makes serial devices (COM ports) available over SSH and HTTP. Each
configured device gets an SSH server with one shared serial session; an HTTP API reads
history, writes, streams the output of a command and manages mappings; tunnels make the
gateway reachable through a relay host. The program is small, but nearly every part of it is
goroutines sharing a device, a queue, a file or a connection that can vanish. This directory
models those parts, checks them with TLC and proves the most important invariants with TLAPS.
Line numbers refer to the files named; all of them are below `src/`.

## 1. Inventory

| Part | State | Operations | Interacts with | What is hard |
|---|---|---|---|---|
| Serial session (`internal/serial/session.go`) | port handle, connected flag, stop channel, write queue (64), line counter | `Open`, `Close`, `readLoop`, `writeLoop`, `handleDisconnect`, `reconnectLoop` | callers, ring buffer, recorder, subscribers | the stop channel is replaced and read without the lock; goroutines of several generations overlap |
| Write callers (`http/handlers.go`, `http/exec.go`, `ssh/handler.go`) | a request with its reply channel | open if needed, queue, wait with a timeout | session | timeouts race the write; a full queue; the SSH read buffer is reused |
| Ring buffer (`serial/ringbuffer.go`) | entries, byte count | `Append` with eviction, `Tail`, `All` | readLoop, HTTP | two limits, lines larger than the buffer |
| Broadcast (`session.go`), exec stream (`exec.go`), terminal (`ssh/handler.go`) | subscriber map, a channel (64) per consumer, two timers per stream | `broadcast`, `Subscribe`, `Unsubscribe`, the select loop of the stream, the output goroutine | session, consumers | channels closed while others send; slow consumers; clients that do not read |
| File recorder (`recorder/recorder.go`) | channel (256), file, counted size | `Write`, `Stop`, writer loop with trim | readLoop, port manager, disk | each of six file operations can fail; the end of the process at any point |
| Port manager (`core/portmanager.go`), SSH server (`ssh/server.go`), start-up (`cmd/serial-gateway/main.go`) | maps of servers and recorders | `AutoStart`, `AddMapping`, `RemoveMapping`, `Mappings`, `GetServer`, `Shutdown` | HTTP, SSH, sessions, recorders | steps outside the lock; servers used after their removal; order of shutdown |
| Reverse tunnel (`tunnel/reverse.go`, `keepalive.go`) | ssh connection, listeners, two channels, WaitGroup | `Start`, `Stop`, `run`, `connect`, accept goroutines, `forward`, keep-alive | relay host, users | goroutines of old connections; silent links; Stop at any point |
| Local forward (`tunnel/localforward.go`) | ssh connection, local listener, WaitGroup | `Start`, `Stop`, `run`, `serve` with three helpers, `handle` | remote host, local users | helpers that outlive their connection close its listener later |
| Proxy bridge (`tunnel/proxybridge.go`) | per session: connection to the target, exit status | `Serve`, `bridgeSession`, `dialTarget` | tunnel in `ssh_proxy` mode, target | a handler that just returns reports success; leaving users |
| Host key (`ssh/server.go`) | the file `host_key` | load or generate | servers, requests, tunnels | written in place by several callers; crash in the middle |
| Configuration (`config/config.go`), `tunnel-ports` (`cmd/tunnel-ports`) | the file, `gw.cfg` | `Load`, defaults, the flag, derived ports, `PUT /api/config` | all | the same derivation written twice; values computed before they are replaced |
| Logging (`log/log.go`) | a handler with a mutex, copied by `With` | `Handle`, `WithAttrs`, `WithGroup` | all | the mutex is copied in the state it is in |
| Notifications, port discovery | none that others read | | | |

What makes each part correct is stated as properties in the modules (section 4); the hazards
behind them are listed with their lines in `PROJECT.json`.

## 2. Modules

| Module | Contents |
|---|---|
| `SerialSession` | the session with all its goroutines, the write queue and the callers, implementing `WriteService` |
| `WriteService` | what a session promises to those who write to it: each request delivered at most once, and answered in that moment |
| `SerialSessionProofs` | its invariants and the refinement, for all values of the constants |
| `BoundedHistory` | what a history promises: a read is a suffix of the longest run of newest lines that fits |
| `RingBuffer` | the buffer with its mutex and its eviction loop, implementing `BoundedHistory` |
| `RingBufferProofs` | bookkeeping, and the refinement, for all limits and sizes |
| `Broadcast` | broadcast, subscriptions, exec streams and terminals |
| `BroadcastProofs` | its invariants for any broadcasters, consumers and capacity |
| `FileRecorder` | the recorder, its file, faults, crashes and restarts, implementing `Journal` |
| `Journal` | the abstract file: what is recorded, cut, missed and lost |
| `FileRecorderProofs` | its invariants for any sizes, faults and crashes |
| `PortManager` | start-up, mappings, requests that hold a server, shutdown |
| `PortManagerProofs` | its invariants for any devices, configured ports and requests |
| `Tunnel` | what main relies on of any tunnel: one connection held at a time, nothing left after Stop |
| `ReverseTunnel` | one tunnel over successive connections, its keep-alive and Stop, implementing `Tunnel` |
| `ReverseTunnelProofs` | its invariants and the refinement, for any listeners, users and number of connections |
| `LocalForward` | the local listener, its helpers, its users and Stop, implementing `Tunnel` |
| `LocalForwardProofs` | its invariants and the refinement, for any users and number of connections |
| `ProxyBridge` | the sessions of one user's connection in `ssh_proxy` mode |
| `Config` | defaults, the flag, and the ports that main and `tunnel-ports` derive (operators only) |
| `HostKey` | the key file and the steps of loading or generating it |
| `Gateway` | the process over several lives: composes `Config`, `HostKey`, the servers and the tunnels |
| `GatewayProofs` | one identity for all endpoints, and the ports listed, for any configurations; the statuses a `ProxyBridge` reports |
| `Logger` | the handler of the text format and its copies |
| `MC...` | the values of constants that a configuration file cannot express, and symmetry |

An action stands for the code between two points where another goroutine can interfere: a
critical section is one action, a loop has an action per turn, and where the code acts without
the lock (reading or closing `stopCh`, AutoStart's check) the step is an action of its own. The
`map` of `PROJECT.json` gives the lines of every definition. Definitions marked *Mutant* are
not part of a specification: each is a plausible fault in the definition that follows it, and
substituting it makes the property named in `PROJECT.json` fail, which shows that the property
depends on the code.

### SerialSession
Every successful `Open` starts a *generation* `g`: OS handle, `readLoop` and `writeLoop` `g`,
and, when that readLoop loses the device, stop channel `g` and `reconnectLoop` `g`. The program
counters `rpc`, `wpc`, `xpc`, `closer`, `cpc` walk through the loops, Close and the callers.
`mu` is taken only by handleDisconnect for longer than a step, because its test, close and
replacement of `stopCh` interleave with code that does not take the lock. `available` is
the device: `Unplug` and `Plug` are the environment's. Lines are their sequence numbers, bytes
of a request are the number of the request they were typed for (so that the reuse of the SSH
buffer shows), `verdict` is what the caller concluded. `p.Write` returns a count that the code
discards: `WriteResults` has it succeed or fail, on a live handle or a dead one, after all of the bytes, a part
or none of them reached the device, but never succeed with none. An entry of `wire` therefore says that the device got these bytes *or the first
of them*. `panicked` records a double close of a
channel; the model goes on, which only adds behaviours.

`WriteService` has no device, no generations and no loops: a queue, the requests in hand, answers, verdicts
and the wire; a delivery may be one in part, and may be answered with an error. The refinement maps *submitted* to the requests whose client is past its send, and *taken* to what
the writeLoops of all generations hold. It leaves open what the code leaves open: a request whose client has given up may
still be delivered, for a terminal with later bytes; and with `DiscardInput` off a request may be
dropped without an answer. `NoneLost` is an invariant of the service; `NoRequestLost` is what it says of a session.

### RingBuffer and BoundedHistory
`ends` is a history of cumulative sizes, from which both modules define what a line is. The
buffer's `entries` and `totalBytes` change in `Push`, in one `Evict` per turn of the loop, and
`Release` gives the mutex back; `MayRead` is the mutex as `Tail` sees it.

### Broadcast
`bpc`, `todo` are a broadcaster that visits the subscribers under the read lock in any order;
two broadcasters stand for the readLoops and reconnectLoops of two generations. A consumer is
an exec request or a terminal with its channel. Timers are flags that a fired timer sets; a
message drains and resets the silence timer. A stream that has taken a message prints it (`print`), and one that a timer
ends prints its last event (`last`): `Fprintf` and `Flush` may wait there for a client that has stopped reading (`stalled`),
because the HTTP server sets no WriteTimeout, and meanwhile the handler looks at no timer. Not modelled: the writer preference of Go's
RWMutex beyond `WriterWaits`, and the `!ok` branch of the exec select, which is never taken
because a handler closes its own channel only when it returns.

### FileRecorder
The stream is the sequence of bytes numbered as they are offered; `disk` is the file's
contents, so that its order and completeness are visible. `done` counts how much of the stream the
writer loop has dealt with, whether or not it reached the file. `pc` walks through the writer loop,
`processWrite` and `trim` with one action per file operation that can fail or be interrupted.
`Crash` and `Exit` end the process (`Exit` when main returns after Shutdown); `Restart` opens
the file and takes its size. The sizes of the file and of a trim are any positive numbers, in any order: the configuration compares
them nowhere, and a trim as large as the file empties it. Negative sizes, which the configuration lets pass too, are left out.

`Journal` has neither writer nor channel nor file handle: a content, how far in the output of the device the recorder
has got, and whether it is open, cutting, closed or down. The content is the file, or what `trim` holds in memory until
it is written back (`Held`), so that a cut is one step; the position is that of the next byte to be written
(`Reached`), so that what the channel had no room for, or a recorder without a file took no notice of, is *missed*.

### PortManager
A server and its session are a number in the order of creation. Operations of the manager are
one action each because they hold `pm.mu` throughout; AutoStart is a loop of four steps that
locks only to store; Shutdown is a step per recorder and per server, during which no other
operation of the manager runs but requests that already hold a server go on. The HTTP server is never
stopped, so between the deferred Unlock (`ShutdownReturns`) and the end of the process (`Exit`) a request that waited for
`pm.mu` gets it, and may still add a mapping. The session is
abstracted to *has the device open*: losing and regaining the device is SerialSession's
subject. Whether a `Close` that overtakes `ListenAndServe` prevents the listening is the ssh
library's affair, and both outcomes are allowed.

### Tunnel, ReverseTunnel, LocalForward
`Tunnel` is the abstract specification of both: a set of connections held, a set of goroutines
running, and Stop. It allows a connection only when none is held, a goroutine only while
another is counted, and a return of Stop only when both sets are empty.

In `ReverseTunnel`, `run` is where `run()`/`connect()` are; connections are numbered, since
accept goroutines and monitors of old ones linger. `wg` is the WaitGroup's counter. A link is
up, silent (nothing arrives and nobody has noticed), broken or closed; requests on a silent
link wait. A forward ends with the first of its two copies; `LinkCuts` is the copy that notices that the link has gone,
which it does only when it reads or writes there: if it waits in a read of its local peer (the target of a reverse tunnel, the user of
a local forward) or in a write to it, closing the client does not wake it. `Stuck` names the users whose local peer may be like that for good. `LocalForward` has the same links; its `helpers` are, per connection, the goroutine
that waits for `stopCh`, the one that waits for the client and the monitor. Its monitor is
that of `ReverseTunnel` with the counting of probes left out. Time is left out of both, and
with it the growth of the back-off interval, which the code never resets.

The refinement maps *held* to the connections with an open client or listener, and
*active* to the goroutines that the WaitGroup should count. Accept goroutines of a reverse
tunnel that have been counted but whose connection has ended are active and hold nothing.

### ProxyBridge
One connection of a user with two sessions. The steps of `bridgeSession` can each fail;
`exit` is the first status reported, and returning without one reports 0, as the ssh library
does. Whether a command ends when its input ends is chosen at the start (`heeds`).

### Config, HostKey and Gateway
A configuration is a record of settings in which `Unset` is the zero value of any field;
`ApplyDefaults` is one substitution per group of settings. `Listed` is the derivation of
`tunnel-ports`, `Binds` and `Started` are main's; the program has the rules twice, and so has
the model. `HostKey` gives the steps of `LoadOrGenerateHostKeyPEM`; a key is the number of its
generation, and a torn file is what a crash, or a reader in the middle of a write, finds.
`Gateway` composes them: main's stages (`pc`), servers by the identity they show, `connect()` of
each tunnel as far as it uses the key and ports, and the ports of all hosts (`holder`), where a
lost or crashed connection may leave a stale holder until the host notices. A crash keeps only
the files and stale holders.

The search for processes that hold a remote port is no step: `reverse.go:262` looks for
`pid=\\K` in a raw string, a pattern with a literal backslash that the output of `ss` does not
contain, so that it never finds a process; the retry of a failed bind that follows it is
modelled.

### Logger
Each handler has its own copy of the mutex, in the state that the copied handler was in.

## 3. Checks

Each run finishes in at most about two minutes with two workers.

| Run | Bounds | What it shows |
|---|---|---|
| `session_removal` | 1 terminal with 2 inputs, queue 1, 3 generations, 1 unplugging, Close at any time, no output | no request lost, handle accounting, closed stop channels, verdicts, refinement of WriteService |
| `session_kept` | 1 HTTP client, queue 1, 2 generations, 1 unplugging, 3 lines, fair | served or recovering, lines in order, reconnection, answers |
| `ring_buffer` | limits 3 lines and 2 bytes, lines of several sizes up to larger than the buffer, 6 lines | bookkeeping and refinement |
| `recorder` | limit 3, trim 2, chunks of 1 and 2, 4 bytes on an old file of up to 3, one fault anywhere, one crash and restart, shutdown, fair | refinement of Journal, what the file holds and how large it gets; a recorder that is stopped drains and closes, and ends in no other way |
| `broadcast` | 2 broadcasters of 1 message, an exec stream, a terminal, channels of 1, fair | completeness, no message twice, no send on a closed channel; a broadcast returns, and a stream ends if its client reads or hangs up |
| `port_manager` | two devices with one SSH port, one configured twice, 2 servers, 2 requests | servers and recorders are accounted for to the end, requests after the return of Shutdown included |
| `tunnel_accounting` | 2 connections of 2 listeners, 2 users, acceptCh of 1 | the WaitGroup, the error channel, refinement of Tunnel |
| `tunnel_live` | 2 connections, 1 listener, 2 users, one of them with a stuck target, fair | Stop returns or waits only for stuck targets; a silent link is given up |
| `local_forward` | 2 connections, 2 users, one of them possibly stuck, fair | the WaitGroup, no foreign close, refinement of Tunnel, Stop and what outlives it, dead links |
| `gateway` | 3 configurations, the flag given, one fault (crash, lost link, failed access to the key file) over any number of lives, fair | one identity, ports listed, tunnels come up |
| `proxy_bridge` | 2 sessions, statuses 0 to 2, fair | true exit statuses; users that leave are released |
| `doc_derived_logger` | 2 goroutines, 2 handlers, fair | a finding, see below |

The bounds are chosen so that the interesting case occurs and only just: two generations are
needed for an old loop to meet a new one, and three for a session that was lost, found again and removed to be opened once more by a
request; the second input of a terminal overwrites the buffer of its first; a queue or
channel of one is full at once; a limit of three with a trim of two has the file trimmed more
than once (the file of a trim that is larger, limit 3 and trim 4 on an old file of up to 5, was checked for `Retained` as well),
and its one fault and one crash may hit any of the operations of a trim; two users
fill acceptCh and block a goroutine; two broadcasters contend for a channel of one, so that a
message is lost; a helper of the first of two connections meets the second. The three configurations of
`gateway` are: a proxy and serial ports on one host, with a port listed twice and one without a
number; nothing for AutoStart to start, with a local forward and a serial tunnel that has
nothing to forward; two tunnels that want one port, with a proxy whose authentication does not
allow it. One fault is enough for each of the ways in which a life may
leave a torn or missing key or a stale port to the next. `GatewayProofs` covers the two invariants
for all configurations and numbers of faults; its inductive invariant was also checked by TLC
with two faults.

`PortManager` and `ReverseTunnel` are checked with symmetry in the requests and users, only
where no liveness property is checked. Deadlock is not checked in runs whose bounds
(generations, lines, requests, servers) or whose end (the process exits, Stop has returned, the
user has left) let the system stop. It is checked in `gateway`, which can always start again.

### Where the documents and the code differ

`doc_derived_logger` checks a statement that is wrong in a way that stops the program: a wiki
page says that the mutex of the log handler makes concurrent calls safe
(`.zread/wiki/drafts/24-structured-logging-with-rotation-support.md:124`). `WithAttrs` copies
the handler and its mutex (`log.go:137`); a copy made while another goroutine is in `Handle` is
locked for ever, and the first call through it does not return.

The modules state more sentences of the documents that the code does not guarantee, at their
ends. No standing run checks them. To see the execution, name one
of them as INVARIANT or PROPERTY in a copy of a configuration of that module; `SenderReturns` and
`DownIsAnnounced` need `FairSpec` and an SSH client, and `DownIsAnnounced` two unpluggings; `ExecIsCapped` `FairSpec`, `ConnectionsDrain`
and `StopAlwaysReturns` `FairSpec` and a user in `Stuck`.

| Module, definition | Statement | Behaviour |
|---|---|---|
| SerialSession `WireIsUncorrupted` | the queue prevents corruption | a terminal's buffer is overwritten while queued |
| `NoDoubleClose` | no panic from a double close | Close and handleDisconnect both close |
| `WritesSerialized` | all writes in order, by a single writeLoop | an old writeLoop takes a request before it looks at its stop channel: two write at once after a reconnect |
| `DownInputDiscarded` | input during a disconnection is discarded | it waits in the queue and is written after the reconnect |
| `TimedOutIsCanceled` | a timed-out write is canceled | it stays queued and is written later |
| `ClosedIsTerminal` | no reconnection after Close | reconnectLoop checks, Close runs, reconnectLoop opens |
| `SenderReturns` | producers do not block indefinitely | with the device gone nobody takes from a full queue, and the send has no timeout |
| `DownIsAnnounced` | subscribers get real-time status | the notice of a reconnect comes after that of the next disconnect |
| Broadcast `ExecIsCapped` | max_duration is a hard cap on a stream | the handler is in a Fprintf to a client that reads no more, and never looks at the timer |
| `TerminalUnsubscribes` | a terminal that hangs up is unsubscribed | handler and output goroutine wait for each other |
| FileRecorder `TrimFailureRestarts` | after a failed trim the file starts afresh | nothing is recorded any more |
| `StopReachesDisk` | what was queued before Stop reaches the disk | the process ends first |
| PortManager `NoUseAfterDelete` | the lock prevents use after delete | a request that looked the server up opens the removed session again |
| `NilIsHandled` | nil becomes a 404 | a mapping removed between snapshot and look-up: GET /api/mappings panics |
| `AllIsShutDown` | an interrupt makes a clean shutdown, SSH servers included | a request that waited for the lock adds a mapping after Shutdown, before the process ends |
| `RecordedFromTheStart` | every byte is persisted | a client between `Start` and `SetRecorder` has output read that is not |
| `ActiveIsServed` | active means an SSH server is running | the listen failed |
| ReverseTunnel `StopEndsBackoff` | Stop ends the back-off | one more dial |
| `NoForcedInterruption` | forwards are not interrupted | the client is closed under them |
| `StopLeavesNothing` | all goroutines have exited | monitor and copies are not waited for |
| `ConnectionsDrain` | Stop waits for the connections in flight to drain | one whose target neither reads nor sends never does; main then waits in Stop and shuts no mapping down |
| LocalForward `StopAlwaysReturns` | an interrupt makes a clean shutdown | Stop waits for ever for a user that neither reads nor sends |
| Gateway `SameIdentity` | all servers show one identity | a crash leaves a torn key file; each server then makes up a key |
| `PortsAreCleared` | residual holders of a port are cleared | the search finds nothing (see above) |
| `TunnelReachesHttp` | the flag replaces the HTTP port | the default target of the reverse tunnel was computed from the old one |
| ProxyBridge `ConnectionEndsSessions` | (an expectation, not a document's) a lost connection ends its sessions | a command that ignores the end of its input keeps handler and target |
| `SuccessIsReported` | (likewise) success is reported | input that comes after the target has closed turns 0 into 1 |

### Fairness

The liveness runs assume only what the runtime and the network give. Goroutines that can run
do run and timers fire (weak fairness per goroutine). Nothing makes a client start, wait or hang up, a device print or come
back, or anybody call Close or Stop. What is assumed of calls that may take long is this:

* *SerialSession*: `p.Write` returns, and `p.Read` on a handle that has died or was closed. Without the first, no request would be
  answered, as a writeLoop has no other way on. That a write without an error has reached the device, though perhaps not in full, is what `serial.Port` promises.
* *Broadcast*: a Fprintf or Flush to a client that reads, or has hung up, returns; nothing is assumed of one to a client that does
  neither. A maximum timer that is ready each time the handler is at its select is taken some time (strong fairness: `select` picks at random).
* *FileRecorder*: that a drain ends rests on the bounded input. Write never closes the channel, so
  a producer that is faster than the disk could keep the drain busy; sessions are closed by
  the same Shutdown.
* *ReverseTunnel*: a case of `select` that is ready again and again is chosen (strong
  fairness), dials end, and TCP gives up a silent link *if something is written on it*: without
  the keep-alive `DeadLinkIsReplaced` fails. Stop returning rests on the same: a listener's
  Close waits for a reply. A forward whose link has gone ends unless its target is `Stuck`: of the others it is assumed that
  they read or send now and then.
* *LocalForward*: likewise, with the users for the targets; a dial and a sleep end. The time limit of the ssh library covers the TCP
  connection only; that the handshake after it ends is an assumption.
* *Gateway*: a dial is answered some time (the code bounds the TCP connection only, not the handshake that follows), and a host notices some time that a connection is
  gone. Nothing makes the process start, or stop.
* *ProxyBridge*: a dial ends, although the code bounds neither its handshake nor `NewSession` (with a target that never answers there, the
  handler stays whether or not the user leaves), and a command that heeds the end of its input ends after it.
* *Logger*: a mutex that is free again and again is acquired (`sync.Mutex` has a starvation mode).

## 4. Properties

*Session.* `HandleAccounting`: `connected` agrees with `port` and the handles open in the system
are exactly `s.port`. `OldStopsClosed`: every replaced stop channel is closed. `VerdictIsTrue`:
a request is written once at most, whatever its caller was told; one whose caller was told "ok" was; and what was written for a caller that has an answer were its own bytes,
all or the first of them. `ImplementsWriteService`: no request is delivered twice or by two writeLoops, or delivered after it was refused, and each
is answered when that is decided. `NoRequestLost`: with `DiscardInput` a request that entered `writeCh` is there, in the
hands of a writeLoop, or answered, also when the loop that would have taken it has stopped. For a mapping that is kept, `Served`, `Recovering` and `LinesInOrder`, and under fairness
`Reconnects` and `QueuedIsAnswered`.

*History.* `BytesExact`, `ImplementsHistory`.

*Broadcast.* `NoSendOnClosed`; `StreamFaithful` (the messages of a broadcaster in order and none twice, and for
a stream none missing since its request unless its channel was full; with one message per broadcaster
the run sees what is missing or doubled, the order of several is shown by the proof);
`BroadcastReturns`; `StreamEnds` (a stream whose client goes on reading, or hangs up, ends and unsubscribes).

*Recorder.* `ImplementsJournal`: the file grows by unbroken pieces of what the device sends, in order and none
twice, bytes leave it only by a cut of `TrimSize` when it has reached `MaxSize`, or in the rewrite after such a cut
if that fails or the process ends in it, and after a failed one nothing is recorded until the next start. It implies
`Chronicle` (the bytes in the file rise). A `Journal` may miss bytes at any time, since the recorder drops a chunk without a word when its channel is full:
the refinement bounds order, repetition and loss of what was recorded, more than completeness. Completeness, for runs without faults, is
`Retained` (the file is the unbroken end of what was dealt with, all of it or what one trim leaves of a full file). Further `SizeBound`,
`FlushedWhenGone` (writeLoop ends only when it was stopped and everything accepted before is dealt with), `StopFlushes` (and
it does end).

*Port manager.* `RunningIsMapped`: no server runs that nobody can stop. `OneRecorderPerFile`,
`ShutdownIsComplete`: when Shutdown has returned, and until the process ends, every recorder was told to drain and every server created before its return is stopped. These rest on main serving HTTP only after AutoStart, and on AutoStart's
duplicate check; the mutants show it.

*Tunnels.* Each WaitGroup counts exactly its goroutines (in `TypeOK`); `ImplementsTunnel`: no
connection is made before the last one was given back, nothing is counted after Stop could have
returned, and nothing is held when it has. `ReportNeverBlocks`, `StopReturns` (or what Stop waits for in the end are only forwards in `Blocked`, those whose
peer is stuck) and
`DeadLinkIsReplaced` for the reverse tunnel; `ClosedForCause` (a helper of an old connection does not
close the listener of a new one), `StopEndsAll` (likewise, and all helpers and second copies end) and `DeadLinkIsReplaced` for the local forward.

*Gateway.* `SharedIdentity`: once AutoStart has started a server with a key that the file holds,
every endpoint shows it and the file keeps it. This rests on the order of main (AutoStart before
tunnels and HTTP), not on any lock: without a server from AutoStart, two tunnels may generate
two keys. `ListedIsBound`: `tunnel-ports` names exactly the ports bound. `TunnelsComeUp`: a tunnel whose
ports no other wants comes up, whatever earlier connections and lives have left.

*Proxy bridge.* `ExitIsTruthful`: 0 only for a command that succeeded, another status unchanged.
`LeaversAreReleased`.

## 5. Proofs

Assumed are only the named assumptions on the constants. `SerialSessionProofs` proves, in five
layers, each inductive relative to the one before:

1. `TypeInv`: types, and what the program counters imply of the data they carry
   (`TypeCorrect`).
2. `SafetyInv`: who holds `mu` and in which phase of handleDisconnect (`Locking`); between its
   close and its replacement the stop channel is closed (`SwapClosed`); the accounting of
   handles and of stop channels (`HandlesAccounted`, `OldStopChannelsClosed`). Locking is needed
   because accounting is disturbed inside handleDisconnect and must be known to be restored.
3. `KeptInv`, while Close has not been called: `Life` says in which of its phases the session is
   (never opened; up, with its two loops on the newest handle; going down; down, with the
   reconnectLoop of the last generation), and `Lines` that only one readLoop is past its read
   (`KeptIsServed`, `KeptIsRecovering`, `KeptLinesInOrder`). The phases are needed because none of the three
   properties says what the loops of earlier generations may still do.
4. `RequestInv`, which follows a request from its caller to the device: it is in one place at most, the
   queue or the hands of one writeLoop of whatever generation (`Once`); until it leaves that writeLoop
   it has no answer, and before it is sent nobody knows of it (`Waiting`); the device has it once at most, only if it
   has an answer, and certainly if that is "ok" (`Written`); and a caller that was answered was told the answer,
   before its client typed again and overwrote the buffer (`Told`). `Once` is what keeps apart writeLoops
   of different generations, which take from one queue (`VerdictsAreTrue`).
5. `Asked`: a client has a verdict on all its requests but the one it is sending or waits for; and `Fresh`: a
   generation that was not opened has no writeLoop, so that `Open` cannot make a writeLoop forget the request it
   holds. With these every step is a step of `WriteService` or a stutter (`ServiceNext`, with a lemma per abstract
   action), hence `SessionImplementsService`. `Asked` is what makes the bytes of a delivery right while
   the client waits: its buffer then still holds this request. `NoneLost` is inductive for
   `WriteService` alone (`ServiceKeeps`), so the refinement makes it an invariant of the session (`RequestsAreKept`) without a
   look at one of its loops.

`RingBufferProofs` proves `RingCorrect` from `IInv`, which adds to the properties that the
cumulative sizes grow (otherwise "would have fitted" is not monotone in the number of lines), that no line was
dropped that would have fitted (`DroppedForCause`), and that
outside `Append` the limits hold, and `RingImplementsHistory`: by `KeepsLongest` the buffer holds
exactly the longest run that fits when the mutex is free, so `Push` is a new line of the abstract history,
`Evict` and `Release` are stutters and `Read` is its read.

`BroadcastProofs` proves the invariants of `Broadcast`. `TypeOK` alone is not inductive: a broadcast under
way must have a message (`Numbered`). `Subscribed` says where the handler of each consumer is, and hence
who is in the map and whose channel is closed; `Visits` that only the broadcast that holds the read lock
has channels left to visit, all of them in the map, since a handler needs the write lock to leave it. From
these follows that nobody sends on a closed channel.
`StreamFaithful` is inductive with `Ordered`, which adds to the order in each channel that its numbers have been sent
already, the one under way excepted where it is still to be delivered (`Numbers`).

`FileRecorderProofs` proves the invariants of the recorder. The content that matters is `Content`:
the file, or during a rewrite what `trim` holds of it in memory, the file being empty (`Hands`).
`Aligned`: the chunk in hand and those in the channel are the rest of the stream, piece by piece, given by the
offsets at which they stand; flattening the channel would have needed an induction. `Ordered`: the
stream rises, and the content consists of bytes of the part that is dealt with, so what is appended is
newer; this holds with any faults and crashes (`FileIsAChronicle`). `Sound` and `Sized` speak of the time before
the first fault: the counted size is the file's, the content is the end of what was written and not
cut too deep (`EndIsRetained`), and where a chunk is about to be written there is room for it
(`SizeIsBounded`), for which a trim must cut at least a chunk (`MaxChunk <= TrimSize`). Every step of writeLoop keeps the content, cuts it
at its ends, or appends a prefix of the chunk in hand (`ContentStep`). By `Aligned`
a drain that finds the channel empty has dealt with the whole stream (`NothingLeft`), and there is no other way to the
end of the loop (`Drains`, `StopIsFlushed`). For `RecorderKeepsAJournal`, `Chunks` says that a chunk is
unbroken and `Counted` that the counted size of an open file is at most its length, so that a cut meets a full file
also after a write that failed in part; by `ChunkFollows` the chunk in hand begins right behind the position, and
by `WriteAdvances` a chunk that is offered, whether or not there is room, never moves it back.

`PortManagerProofs` proves all four invariants of the port manager (`TypeCorrect`, `ServersAreMapped`,
`RecordersAreSingle`, `ShutdownCompletes`) from one inductive invariant. `BootInv` says what AutoStart's
check is worth later on: the device it checked is still not in the map when it stores, because HTTP is
not served before AutoStart is done. `RecorderInv` says whose a recorder that is on can be; it
needs that, during AutoStart, a device in the map of recorders is in the map of servers too, or the
store could overwrite a recorder. `ExitInv` says what is in both maps once Shutdown has returned: no recorder, and only servers created since. Requests
and listeners are dealt with in one lemma, `SameServers`: they change nothing the invariant speaks of.

`LocalForwardProofs` proves `TypeCorrect` (with the exact count of the WaitGroup),
`ListenerClosedForCause` and `LocalForwardIsATunnel`. The invariant adds `Current`: whatever is open belongs to
the newest connection, and only while `serve()` is in it. The helpers of old connections then only
find listeners that are closed already, and a dial finds nothing held, which is what `Tunnel` asks.
The refinement maps each action to one step of `Tunnel` or a stutter (`StopRefines`, `RunRefines`,
`UserRefines`, `OtherRefines`).

`ReverseTunnelProofs` proves `TypeCorrect` (again the WaitGroup, which here also counts the acceptors),
`ReportsFindRoom` and `ReverseTunnelIsATunnel`. Its invariant has five parts besides the types. `Current`: a
client that is not closed is that of the connection `connect()` is in, so a step of an old connection's
goroutine changes nothing `Tunnel` can see. `Fresh`: nothing has happened on connections to come, and the
acceptors of the newest start only when its last listener is open, so that the count grows by
exactly one for each. `Queued`: a user is in one queue, once, or it would be counted twice. `Reports`: the errors
in `errCh` are at most the acceptors that have ended, hence the acceptor that reports finds room. `Probes`: a
monitor that still watches has failed less often than the limit.

`GatewayProofs` proves `TypeCorrect`, `IdentityIsShared` and `PortsAreListed`. For the identity, `Quiet` says that
nobody but main is at work before the server stage and that main loads a key only for a server that
does not run; `BootKey` that during AutoStart each server shows what the file holds and nobody
writes it; `ServeKey` that later, if a server of AutoStart runs with a real key, nobody is in the middle
of a load at all, because the file exists, so each load is a single read. For the ports, `Holding`
says what a tunnel in each phase has bound, and `ListedIsPorts` that both derivations, main's and
that of `tunnel-ports`, give one set for every configuration.

`GatewayProofs` also extends `ProxyBridge` (which is why the names there carry *Bridge*) and holds the proofs about
it, since the bridges are what the proxy of a tunnel leads to; no action of one changes a variable of the other.
`BridgeTypeCorrect` are its types. `BridgeIsTruthful` rests on `Reports`: the command is
started last, has ended when the session returns, and before that, nothing is reported; so the report of the failure
or of the command is the first, and the 0 of a plain return never counts.

Every invariant that a run checks and all five refinements are proved, and the type invariants of `SerialSession`, `FileRecorder`,
`Broadcast`, `PortManager`, `Gateway` and `ProxyBridge`, which no run needs to check any more. Model-checked only are the liveness properties,
which are out of the prover's reach, and the log handler, about which nothing but liveness is said. What is proved is
proved of the models for all values of the constants, the bounds (such as the number of generations or
of bytes) included; that the models leave out nothing of the code that matters is no subject of a proof.

## 6. Plan

Done, in this order: the session and its callers (the core), the ring buffer with its abstract
specification, the recorder, broadcast, the port manager, the reverse tunnel; the proofs of the
session, the ring buffer and the port manager; the local forward with the abstract
tunnel, configuration, host key and the gateway that composes them, the proxy bridge, the log handler; the
proofs of the local forward, of the reverse tunnel, of the gateway, of the verdicts of a session, of broadcast, of the
recorder and of the proxy bridge; the session as a `WriteService` with the requests it keeps, the recorder as a `Journal`.

Next:
1. `WriteService` with subscriptions, so that it can stand for the session in `PortManager` in place of its open
   handle.
2. `Journal` in place of the recorders in `PortManager`, so that what is in the files after a Shutdown, a removal and
   a new start of the process follows from the order of its steps.

## 7. Not modelled

Notifications (an XML text handed to PowerShell) and port discovery (a call of the operating system):
no state that others read. `PUT /api/config`: it swaps the pointer `gw.cfg` while requests read it, but
of the new configuration only time limits and two texts are read later; the port manager keeps the
old one, against the wiki page on configuration updates, which says that new sessions see
it. The parsing of YAML and its errors. Rotation of the log file. The text that history and streams are rendered to
(splitting into lines, escape sequences): no property is about it. Authentication. The modes of
`os.File` and of the ssh and serial libraries beyond what the code relies on: these are external
definitions, marked so in the map.
