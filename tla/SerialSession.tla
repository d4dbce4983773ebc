---------------------------- MODULE SerialSession ----------------------------
(***************************************************************************)
(* internal/serial/session.go: one SerialSession with its goroutines       *)
(* (readLoop, writeLoop, reconnectLoop), its write queue, and the callers   *)
(* that share it: the HTTP write/exec handlers, the SSH handler and         *)
(* SSHServer.Stop.                                                         *)
(*                                                                         *)
(* Every successful Open starts a new generation g: OS handle g, readLoop   *)
(* g, writeLoop g.  A readLoop runs handleDisconnect at most once, so the   *)
(* stop channel it makes and the reconnectLoop it spawns are also number g; *)
(* stop channel 0 is the one NewSerialSession makes.                        *)
(*                                                                         *)
(* A section under s.mu is one step, except handleDisconnect: s.stopCh is   *)
(* also read and closed WITHOUT s.mu (by Close and by loops that start), so *)
(* its select, close and replacement are separate steps with mu held.       *)
(* Closing a channel twice panics and ends the process; here it is recorded *)
(* in panicked and the rest may go on, which only adds behaviours.          *)
(***************************************************************************)
EXTENDS Integers, Sequences, FiniteSets

CONSTANTS
    HttpClients,    \* concurrent HTTP write/exec requests
    SshClients,     \* SSH terminals: they reuse one read buffer
    QueueCap,       \* capacity of writeCh (64 in the code)
    DiscardInput,   \* cfg.Reconnect.DiscardInputOnDisconnect
    MayClose,       \* TRUE if the mapping may be removed (Close runs once)
    MaxOpens,       \* bound: generations
    MaxUnplugs,     \* bound: times the device vanishes
    MaxLines,       \* bound: output lines read from the device
    MaxReqs         \* bound: write requests of one client

ASSUME SessionAssumption ==
    /\ QueueCap \in Nat \ {0}
    /\ MaxOpens \in Nat \ {0}
    /\ MaxUnplugs \in Nat
    /\ MaxLines \in Nat
    /\ MaxReqs \in Nat
    /\ DiscardInput \in BOOLEAN
    /\ MayClose \in BOOLEAN
    /\ HttpClients \cap SshClients = {}

Clients  == HttpClients \cup SshClients
Gens     == 1..MaxOpens
StopChs  == 0..MaxOpens
Requests == Clients \X (1..MaxReqs)

VARIABLES
    available,    \* the device is present and this process may open it
    unplugs,      \* how often it vanished
    handles,      \* OS handles opened and not yet closed
    live,         \* handles that still reach the device
    mu,           \* 0: s.mu free or held within one step; g: held by readLoop g
    port,         \* s.port: 0 is nil, g the handle of generation g
    connected,    \* s.connected
    opens,        \* successful Opens so far
    stopCh,       \* s.stopCh
    closedStops,  \* stop channels that are closed
    panicked,     \* a stop channel was closed twice
    notice,       \* the last status message broadcast to the subscribers
    rpc, rstop, rport, rseq,    \* readLoop: pc, captured stopCh, port, seq
    seqCounter,   \* s.seqCounter
    lineLog,      \* sequence numbers in the order ringBuffer.Append got them
    wpc, wstop, wport, wreq,    \* writeLoop: pc, captured stopCh, port, request
    xpc, xstop,   \* reconnectLoop: pc, captured stopCh
    closer,       \* pc of Close
    cpc, sent,    \* clients: pc, number of the latest request
    queue,        \* writeCh
    reply,        \* what req.Done holds or held
    verdict,      \* what the client concluded of the request
    typedDown,    \* requests queued while the session was disconnected
    wire          \* <<request, bytes>>: the device got these bytes, or part of them

device  == <<available, unplugs>>
session == <<handles, live, mu, port, connected, opens>>
stops   == <<stopCh, closedStops, panicked>>
reader  == <<rstop, rport, rseq, seqCounter, lineLog>>
writer  == <<wstop, wport, wreq, reply, wire>>
recon   == <<xpc, xstop>>
client  == <<cpc, sent, verdict, typedDown>>
vars == <<device, session, stops, notice, rpc, reader, wpc, writer, recon, closer, client, queue>>

NoReq == <<>>

ReaderPcs == {"none", "start", "check", "lock", "read", "seq", "append",
              "failed", "select", "close", "swap", "done"}
WriterPcs == {"none", "start", "select", "lock", "write", "done"}
ReconPcs  == {"none", "start", "check", "sleep", "announce", "done"}
CloserPcs == {"idle", "select", "close", "done"}
ClientPcs == {"idle", "check", "open", "input", "send", "wait"}

TypeFlags == available \in BOOLEAN /\ connected \in BOOLEAN /\ panicked \in BOOLEAN

TypeSession ==
    /\ unplugs \in 0..MaxUnplugs /\ handles \subseteq Gens /\ live \subseteq handles
    /\ mu \in StopChs /\ port \in StopChs /\ opens \in StopChs
    /\ stopCh \in StopChs /\ closedStops \subseteq StopChs
    /\ notice \in {"none", "down", "up"} /\ closer \in CloserPcs

TypeReader ==
    /\ rpc \in [Gens -> ReaderPcs] /\ rstop \in [Gens -> StopChs]
    /\ rport \in [Gens -> StopChs] /\ rseq \in [Gens -> 0..MaxLines]
    /\ seqCounter \in 0..MaxLines /\ lineLog \in Seq(1..MaxLines)

TypeWriter ==
    /\ wpc \in [Gens -> WriterPcs] /\ wstop \in [Gens -> StopChs]
    /\ wport \in [Gens -> StopChs] /\ wreq \in [Gens -> Requests \cup {NoReq}]
    /\ xpc \in [Gens -> ReconPcs] /\ xstop \in [Gens -> StopChs]

TypeClient ==
    /\ cpc \in [Clients -> ClientPcs] /\ sent \in [Clients -> 0..MaxReqs]
    /\ queue \in Seq(Requests) /\ typedDown \subseteq Requests
    /\ reply \in [Requests -> {"none", "ok", "err"}]
    /\ verdict \in [Requests -> {"none", "ok", "err", "timeout"}]
    /\ wire \in Seq(Requests \X (0..MaxReqs))

TypeOK == TypeFlags /\ TypeSession /\ TypeReader /\ TypeWriter /\ TypeClient

Init ==
    /\ available \in BOOLEAN /\ unplugs = 0 /\ handles = {} /\ live = {}
    /\ mu = 0 /\ port = 0 /\ connected = FALSE /\ opens = 0
    /\ stopCh = 0 /\ closedStops = {} /\ panicked = FALSE /\ notice = "none"
    /\ rpc = [g \in Gens |-> "none"] /\ rstop = [g \in Gens |-> 0]
    /\ rport = [g \in Gens |-> 0] /\ rseq = [g \in Gens |-> 0]
    /\ seqCounter = 0 /\ lineLog = <<>>
    /\ wpc = [g \in Gens |-> "none"] /\ wstop = [g \in Gens |-> 0]
    /\ wport = [g \in Gens |-> 0] /\ wreq = [g \in Gens |-> NoReq]
    /\ xpc = [g \in Gens |-> "none"] /\ xstop = [g \in Gens |-> 0]
    /\ closer = "idle"
    /\ cpc = [c \in Clients |-> "idle"] /\ sent = [c \in Clients |-> 0]
    /\ queue = <<>> /\ reply = [r \in Requests |-> "none"]
    /\ verdict = [r \in Requests |-> "none"] /\ typedDown = {} /\ wire = <<>>

-----------------------------------------------------------------------------
(* The device: an unplugged device leaves its open handle dead.            *)

Unplug ==
    /\ available /\ unplugs < MaxUnplugs
    /\ available' = FALSE /\ unplugs' = unplugs + 1 /\ live' = {}
    /\ UNCHANGED <<handles, mu, port, connected, opens>>
    /\ UNCHANGED <<stops, notice, rpc, reader, wpc, writer, recon, closer, client, queue>>

Plug ==
    /\ ~available /\ available' = TRUE /\ UNCHANGED <<unplugs, session>>
    /\ UNCHANGED <<stops, notice, rpc, reader, wpc, writer, recon, closer, client, queue>>

-----------------------------------------------------------------------------
(* Open: already connected, opened (it spawns the two loops), or failed.    *)
(* The caller adds what it does with the result.                           *)

CanOpen == ~connected /\ available

OpenAlready == mu = 0 /\ connected /\ UNCHANGED <<session, rpc, wpc>>

OpenSucceeds ==
    /\ mu = 0 /\ CanOpen /\ opens < MaxOpens
    /\ LET g == opens + 1 IN
         /\ opens' = g /\ port' = g /\ connected' = TRUE
         /\ handles' = handles \cup {g} /\ live' = live \cup {g}
         /\ rpc' = [rpc EXCEPT ![g] = "start"] /\ wpc' = [wpc EXCEPT ![g] = "start"]
    /\ UNCHANGED mu

OpenFails == mu = 0 /\ ~connected /\ ~available /\ UNCHANGED <<session, rpc, wpc>>

\* s.port.Close() of handle h
CloseHandle_Leak(h) == UNCHANGED <<handles, live>>      \* Mutant
CloseHandle(h) == handles' = handles \ {h} /\ live' = live \ {h}

\* select { case <-s.stopCh: default: close(s.stopCh) }, in two steps: the
\* next pc after the select, and the close.
SelectStopCh_Skip(after) == after                       \* Mutant
SelectStopCh(after) == IF stopCh \in closedStops THEN after ELSE "close"

CloseChannel ==
    /\ panicked' = (panicked \/ stopCh \in closedStops)
    /\ closedStops' = closedStops \cup {stopCh} /\ UNCHANGED stopCh

-----------------------------------------------------------------------------
(* readLoop g                                                              *)

Reader(g, from, to) ==
    /\ rpc[g] = from /\ rpc' = [rpc EXCEPT ![g] = to]
    /\ UNCHANGED <<device, wpc, writer, closer, client, queue>>

ReaderStart_FirstStopCh(g) ==                           \* Mutant
    /\ Reader(g, "start", "check") /\ rstop' = [rstop EXCEPT ![g] = 0]
    /\ UNCHANGED <<session, stops, notice, rport, rseq, seqCounter, lineLog, recon>>
ReaderStart(g) ==
    /\ Reader(g, "start", "check") /\ rstop' = [rstop EXCEPT ![g] = stopCh]
    /\ UNCHANGED <<session, stops, notice, rport, rseq, seqCounter, lineLog, recon>>

ReaderCheckStop(g) ==
    /\ Reader(g, "check", IF rstop[g] \in closedStops THEN "done" ELSE "lock")
    /\ UNCHANGED <<session, stops, notice, reader, recon>>

ReaderGetPort(g) ==     \* a nil port: sleep 100ms and start over
    /\ mu = 0 /\ Reader(g, "lock", IF port = 0 THEN "check" ELSE "read")
    /\ rport' = [rport EXCEPT ![g] = port]
    /\ UNCHANGED <<session, stops, notice, rstop, rseq, seqCounter, lineLog, recon>>

\* p.Read returns output that completes a line.  (A chunk without a newline
\* only grows the loop's private lineBuf.)
ReaderData(g) ==
    /\ rport[g] \in live /\ seqCounter < MaxLines /\ Reader(g, "read", "seq")
    /\ UNCHANGED <<session, stops, notice, reader, recon>>

ReaderSeq_PerLoop(g) ==                                 \* Mutant
    /\ mu = 0 /\ seqCounter < MaxLines /\ Reader(g, "seq", "append")
    /\ seqCounter' = seqCounter + 1 /\ rseq' = [rseq EXCEPT ![g] = rseq[g] + 1]
    /\ UNCHANGED <<session, stops, notice, rstop, rport, lineLog, recon>>
ReaderSeq(g) ==
    /\ mu = 0 /\ seqCounter < MaxLines /\ Reader(g, "seq", "append")
    /\ seqCounter' = seqCounter + 1 /\ rseq' = [rseq EXCEPT ![g] = seqCounter + 1]
    /\ UNCHANGED <<session, stops, notice, rstop, rport, lineLog, recon>>

ReaderAppend(g) ==      \* then the next line of the chunk, or the next Read
    /\ Reader(g, "append", "check") \/ (seqCounter < MaxLines /\ Reader(g, "append", "seq"))
    /\ lineLog' = Append(lineLog, rseq[g])
    /\ UNCHANGED <<session, stops, notice, rstop, rport, rseq, seqCounter, recon>>

ReaderError(g) ==       \* Read fails on a dead or closed handle
    /\ rport[g] \notin live /\ Reader(g, "read", "failed") /\ notice' = "down"
    /\ UNCHANGED <<session, stops, reader, recon>>

\* handleDisconnect: it closes whatever s.port is NOW, and if that is nil
\* leaves the rest to whoever made it so.
DisconnectNil(g) ==
    /\ mu = 0 /\ port = 0 /\ Reader(g, "failed", "done")
    /\ UNCHANGED <<session, stops, notice, reader, recon>>

DisconnectLock(g) ==
    /\ mu = 0 /\ port # 0 /\ Reader(g, "failed", "select")
    /\ CloseHandle(port) /\ port' = 0 /\ connected' = FALSE /\ mu' = g
    /\ UNCHANGED <<opens, stops, notice, reader, recon>>

DisconnectSelect(g) ==
    /\ Reader(g, "select", SelectStopCh("swap"))
    /\ UNCHANGED <<session, stops, notice, reader, recon>>

DisconnectClose(g) ==
    /\ Reader(g, "close", "swap") /\ CloseChannel
    /\ UNCHANGED <<session, notice, reader, recon>>

NewStopCh_Keep(g) == stopCh                             \* Mutant
NewStopCh(g) == g

DisconnectSwap(g) ==    \* unlocks and spawns reconnectLoop
    /\ Reader(g, "swap", "done") /\ stopCh' = NewStopCh(g) /\ mu' = 0
    /\ xpc' = [xpc EXCEPT ![g] = "start"]
    /\ UNCHANGED <<handles, live, port, connected, opens>>
    /\ UNCHANGED <<closedStops, panicked, notice, reader, xstop>>

ReaderStep(g) ==
    \/ ReaderStart(g) \/ ReaderCheckStop(g) \/ ReaderGetPort(g)
    \/ ReaderSeq(g) \/ ReaderAppend(g) \/ ReaderError(g) \/ DisconnectNil(g)
    \/ DisconnectLock(g) \/ DisconnectSelect(g) \/ DisconnectClose(g) \/ DisconnectSwap(g)

-----------------------------------------------------------------------------
(* writeLoop g                                                             *)

Writer(g, from, to) ==
    /\ wpc[g] = from /\ wpc' = [wpc EXCEPT ![g] = to]
    /\ UNCHANGED <<device, session, stops, notice, rpc, reader, recon, closer, client>>

WriterStart(g) ==
    /\ Writer(g, "start", "select") /\ wstop' = [wstop EXCEPT ![g] = stopCh]
    /\ UNCHANGED <<wport, wreq, reply, wire, queue>>

WriterStop(g) ==
    wstop[g] \in closedStops /\ Writer(g, "select", "done") /\ UNCHANGED <<writer, queue>>

WriterTake(g) ==        \* when both cases are ready, select picks either
    /\ queue # <<>> /\ Writer(g, "select", "lock")
    /\ wreq' = [wreq EXCEPT ![g] = Head(queue)] /\ queue' = Tail(queue)
    /\ UNCHANGED <<wstop, wport, reply, wire>>

\* req.Done of a request taken while the port is nil
DiscardReply_Silent == "none"                           \* Mutant
DiscardReply == IF DiscardInput THEN "err" ELSE "none"

WriterDiscard(g) ==
    /\ mu = 0 /\ port = 0 /\ Writer(g, "lock", "select")
    /\ reply' = [reply EXCEPT ![wreq[g]] = DiscardReply]
    /\ wreq' = [wreq EXCEPT ![g] = NoReq] /\ UNCHANGED <<wstop, wport, wire, queue>>

WriterGetPort(g) ==
    /\ mu = 0 /\ port # 0 /\ Writer(g, "lock", "write")
    /\ wport' = [wport EXCEPT ![g] = port] /\ UNCHANGED <<wstop, wreq, reply, wire, queue>>

\* What req.Data holds when it is written: an SSH request aliases the buffer
\* of the handler's input goroutine, which may have read the next keystrokes.
Bytes(r) == IF r[1] \in SshClients THEN sent[r[1]] ELSE r[2]

\* What p.Write did when it returns: whether bytes reached the device, and the
\* error.  Its count is discarded, so all of the bytes may have gone, or a part:
\* a short write without an error is a success, and an error may come after
\* bytes that went, also if the handle has died since.
WriteResults_Dropped(h) == BOOLEAN \X {"ok"}            \* Mutant
WriteResults(h) ==
    BOOLEAN \X {"err"} \cup (IF h \in live THEN {<<TRUE, "ok">>} ELSE {})

Delivered(g, reached) ==
    wire' = IF reached THEN Append(wire, <<wreq[g], Bytes(wreq[g])>>) ELSE wire

WriterWrite_Retry(g) ==                                 \* Mutant
    /\ Writer(g, "write", "select")
    /\ \E res \in WriteResults(wport[g]) :
         /\ Delivered(g, res[1]) /\ reply' = [reply EXCEPT ![wreq[g]] = res[2]]
         /\ queue' = IF res[2] = "ok" THEN queue ELSE Append(queue, wreq[g])
    /\ wreq' = [wreq EXCEPT ![g] = NoReq] /\ UNCHANGED <<wstop, wport>>
WriterWrite(g) ==
    /\ Writer(g, "write", "select")
    /\ \E res \in WriteResults(wport[g]) :
         Delivered(g, res[1]) /\ reply' = [reply EXCEPT ![wreq[g]] = res[2]]
    /\ wreq' = [wreq EXCEPT ![g] = NoReq] /\ UNCHANGED <<wstop, wport, queue>>

WriterStep(g) ==
    \/ WriterStart(g) \/ WriterStop(g) \/ WriterTake(g)
    \/ WriterDiscard(g) \/ WriterGetPort(g) \/ WriterWrite(g)

-----------------------------------------------------------------------------
(* reconnectLoop g: the interval is constant, and stopCh is looked at only  *)
(* before the sleep.                                                       *)

Recon(g, from, to) ==
    /\ xpc[g] = from /\ xpc' = [xpc EXCEPT ![g] = to]
    /\ UNCHANGED <<device, stops, reader, writer, closer, client, queue>>

ReconStart(g) ==
    /\ Recon(g, "start", "check") /\ xstop' = [xstop EXCEPT ![g] = stopCh]
    /\ UNCHANGED <<session, notice, rpc, wpc>>

ReconCheckStop(g) ==
    /\ Recon(g, "check", IF xstop[g] \in closedStops THEN "done" ELSE "sleep")
    /\ UNCHANGED <<session, notice, rpc, wpc, xstop>>

AfterFailedAttempt_GiveUp == "done"                     \* Mutant
AfterFailedAttempt == "check"

ReconOpen(g) ==
    /\ \/ (OpenAlready \/ OpenSucceeds) /\ Recon(g, "sleep", "announce")
       \/ OpenFails /\ Recon(g, "sleep", AfterFailedAttempt)
    /\ UNCHANGED <<notice, xstop>>

ReconAnnounce(g) ==
    /\ Recon(g, "announce", "done") /\ notice' = "up"
    /\ UNCHANGED <<session, rpc, wpc, xstop>>

ReconStep(g) == ReconStart(g) \/ ReconCheckStop(g) \/ ReconOpen(g) \/ ReconAnnounce(g)

-----------------------------------------------------------------------------
(* Close, called once by SSHServer.Stop: the port under s.mu, then the stop  *)
(* channel without it.                                                     *)

Closer(from, to) ==
    /\ closer = from /\ closer' = to
    /\ UNCHANGED <<device, mu, opens, notice, rpc, reader, wpc, writer, recon, client, queue>>

ClosePort ==
    /\ MayClose /\ mu = 0 /\ Closer("idle", "select")
    /\ CloseHandle(port) /\ port' = 0 /\ connected' = FALSE /\ UNCHANGED stops

CloseSelect ==
    /\ Closer("select", SelectStopCh("done"))
    /\ UNCHANGED <<handles, live, port, connected, stops>>

CloseStopCh ==
    /\ Closer("close", "done") /\ CloseChannel
    /\ UNCHANGED <<handles, live, port, connected>>

-----------------------------------------------------------------------------
(* Clients: an HTTP handler does lookup, IsConnected, Open, send, wait for   *)
(* each request; an SSH handler does the first three once, then loops over   *)
(* its keyboard input.  Both may only start while the mapping exists.       *)

Client(c, from, to) ==
    /\ cpc[c] = from /\ cpc' = [cpc EXCEPT ![c] = to]
    /\ UNCHANGED <<device, stops, notice, reader, writer, recon, closer>>

NextReq(c) == sent[c] + 1

\* After the open check an HTTP handler builds its request, an SSH handler
\* waits for input.
ClientReady(c, from) ==
    IF c \in HttpClients
    THEN Client(c, from, "send") /\ sent' = [sent EXCEPT ![c] = NextReq(c)]
    ELSE Client(c, from, "input") /\ UNCHANGED sent

ClientBegin(c) ==
    /\ closer = "idle" /\ sent[c] < MaxReqs /\ Client(c, "idle", "check")
    /\ UNCHANGED <<session, rpc, wpc, sent, verdict, typedDown, queue>>

ClientCheck(c) ==
    /\ mu = 0
    /\ \/ connected /\ ClientReady(c, "check")
       \/ ~connected /\ Client(c, "check", "open") /\ UNCHANGED sent
    /\ UNCHANGED <<session, rpc, wpc, verdict, typedDown, queue>>

ClientOpen(c) ==
    /\ \/ (OpenAlready \/ OpenSucceeds) /\ ClientReady(c, "open")
       \/ OpenFails /\ Client(c, "open", "idle") /\ UNCHANGED sent
    /\ UNCHANGED <<verdict, typedDown, queue>>

SshRead(c) ==           \* sess.Read(buf): ends when Stop closes the server
    /\ c \in SshClients /\ closer = "idle" /\ sent[c] < MaxReqs /\ Client(c, "input", "send")
    /\ sent' = [sent EXCEPT ![c] = NextReq(c)]
    /\ UNCHANGED <<session, rpc, wpc, verdict, typedDown, queue>>

ClientSend(c) ==        \* blocks, without a timeout, while writeCh is full
    /\ Len(queue) < QueueCap /\ Client(c, "send", "wait")
    /\ queue' = Append(queue, <<c, sent[c]>>)
    /\ typedDown' = IF connected THEN typedDown ELSE typedDown \cup {<<c, sent[c]>>}
    /\ UNCHANGED <<session, rpc, wpc, sent, verdict>>

ClientReturn(c, v) ==
    /\ Client(c, "wait", IF c \in HttpClients THEN "idle" ELSE "input")
    /\ verdict' = [verdict EXCEPT ![<<c, sent[c]>>] = v]
    /\ UNCHANGED <<session, rpc, wpc, sent, typedDown, queue>>

ClientAnswered(c) ==
    cpc[c] = "wait" /\ reply[<<c, sent[c]>>] # "none" /\ ClientReturn(c, reply[<<c, sent[c]>>])

ClientTimeout(c) == cpc[c] = "wait" /\ ClientReturn(c, "timeout")

ClientStep(c) ==
    ClientCheck(c) \/ ClientOpen(c) \/ ClientSend(c) \/ ClientAnswered(c) \/ ClientTimeout(c)

-----------------------------------------------------------------------------
Next ==
    \/ Unplug \/ Plug \/ ClosePort \/ CloseSelect \/ CloseStopCh
    \/ \E g \in Gens : ReaderStep(g) \/ ReaderData(g) \/ WriterStep(g) \/ ReconStep(g)
    \/ \E c \in Clients : ClientBegin(c) \/ SshRead(c) \/ ClientStep(c)

Spec == Init /\ [][Next]_vars

\* Goroutines that can run do run, and timers fire; a Write on a port returns,
\* and a Read on one that has died or was closed.  Nothing makes the device come
\* back or send output, or a client start a request.
Fairness ==
    /\ \A g \in Gens : WF_vars(ReaderStep(g)) /\ WF_vars(WriterStep(g)) /\ WF_vars(ReconStep(g))
    /\ WF_vars(CloseSelect \/ CloseStopCh)
    /\ \A c \in Clients : WF_vars(ClientStep(c))

FairSpec == Spec /\ Fairness

-----------------------------------------------------------------------------
(* Safety, whether or not the mapping is removed.                          *)

\* s.connected and s.port never disagree, and the OS handles the session has
\* open are exactly s.port: no interleaving of Open (callers and
\* reconnectLoop), handleDisconnect and Close leaks or doubles a handle.
HandleAccounting ==
    /\ connected <=> port # 0
    /\ handles = IF port = 0 THEN {} ELSE {port}

\* Every stop channel that handleDisconnect has replaced is closed, so that no
\* loop can wait for ever on a channel nobody will close.
OldStopsClosed ==
    \A s \in StopChs : (s = 0 \/ xpc[s] # "none") /\ s # stopCh => s \in closedStops

\* A request is written once at most, whatever its client was told; one that
\* was told "ok" has been; and what was written for a client that had an answer
\* were its own bytes, all or the first of them.  (A retry after an error, a
\* reused SSH buffer or a second writeLoop could break it.)
VerdictIsTrue ==
    \A r \in Requests :
        LET hits == {i \in 1..Len(wire) : wire[i][1] = r} IN
        /\ \A i, j \in hits : i = j
        /\ verdict[r] = "ok" => hits # {}
        /\ verdict[r] \in {"ok", "err"} => \A i \in hits : wire[i][2] = r[2]

\* A writeLoop has it in hand; its client has not sent or not even made it.
Holds(g) == wpc[g] \in {"lock", "write"}
Unsent(r) == r[2] > sent[r[1]] \/ (r[2] = sent[r[1]] /\ cpc[r[1]] = "send")

Submitted == {r \in Requests : ~Unsent(r)}
InHand == {wreq[g] : g \in {h \in Gens : Holds(h)}}

Service == INSTANCE WriteService WITH
    submitted <- Submitted, waiting <- queue, taken <- InHand, answer <- reply

\* To its callers the session is the WriteService: unplugging, reconnecting,
\* writeLoops of several generations and Close change nothing of it.  A request
\* is taken by one writeLoop only, reaches the device at most once, and is
\* answered when that is decided.
ImplementsWriteService == Service!Spec

\* With DiscardInputOnDisconnect no request that entered writeCh disappears
\* without an answer, through unplugging, writeLoops that stop with the queue
\* full, their successors and Close: it is in writeCh or in a writeLoop's hand.
NoRequestLost == Service!NoneLost

-----------------------------------------------------------------------------
(* Safety of a mapping that is never removed (MayClose = FALSE).           *)

\* An open port is served: the readLoop and the writeLoop of that generation
\* are running, and the stop channel they hold (or are about to take) is the
\* session's and is open.
Served ==
    (~MayClose /\ port # 0) =>
        /\ rpc[port] \notin {"none", "done"}
        /\ wpc[port] \notin {"none", "done"}
        /\ rpc[port] # "start" => rstop[port] = stopCh
        /\ wpc[port] # "start" => wstop[port] = stopCh
        /\ stopCh \notin closedStops

\* A lost port is being recovered: once the session was opened, whenever the
\* port is nil handleDisconnect is under way or the reconnectLoop it spawned
\* last is still in its loop and will not see its stop channel closed.
Recovering ==
    (~MayClose /\ port = 0 /\ opens > 0) =>
        \/ mu # 0
        \/ /\ stopCh # 0 /\ stopCh \notin closedStops
           /\ xpc[stopCh] \in {"start", "check", "sleep"}
           /\ xpc[stopCh] # "start" => xstop[stopCh] = stopCh

\* The ring buffer gets the lines in the order of their sequence numbers and
\* without gaps, across reconnects, although the number is drawn under s.mu
\* and the entry appended after it is released.
LinesInOrder ==
    ~MayClose => \A i \in 1..Len(lineLog) : lineLog[i] = i

-----------------------------------------------------------------------------
(* Liveness of a mapping that is never removed.                            *)

\* If the device stays available, a session that was ever opened gets (back) a
\* port that reaches it: no reconnectLoop gives up or waits on the wrong
\* channel.
Reconnects ==
    []((opens > 0 /\ []available) => <>(port \in live))

\* If the device stays available, every request that entered writeCh gets an
\* answer on its Done channel, even when it was queued for a writeLoop that
\* has gone (DiscardInputOnDisconnect = true).
QueuedIsAnswered ==
    \A r \in Requests :
        []((r \in {queue[i] : i \in 1..Len(queue)} /\ []available) => <>(reply[r] # "none"))

-----------------------------------------------------------------------------
(* What the documents say and the code does not guarantee.                 *)

\* "All writes to the physical serial port happen in the order they were
\* submitted, with no interleaving": never two writeLoops in p.Write.
WritesSerialized ==
    \A g, h \in Gens : wpc[g] = "write" /\ wpc[h] = "write" => g = h

\* "Keyboard input during disconnection is discarded."
DownInputDiscarded ==
    \A i \in 1..Len(wire) : wire[i][1] \notin typedDown

\* "the operation is canceled and the sender receives an error notification":
\* after the sender was told of the timeout the write does not happen.
TimedOutIsCanceled ==
    [][\A i \in (Len(wire) + 1)..Len(wire') : verdict[wire'[i][1]] # "timeout"]_vars

\* Writes go through a queue "to prevent data corruption": the device gets the
\* bytes that the client put into the request.
WireIsUncorrupted ==
    \A i \in 1..Len(wire) : wire[i][2] = wire[i][1][2]

\* "The Closed state is terminal for the session": a finished Close leaves no
\* open port behind, then or later.
ClosedIsTerminal ==
    closer = "done" => port = 0

\* The select/default guard "does not panic from double-closing the channel".
NoDoubleClose == ~panicked

\* "Producers use time.After(WriteTimeout) to avoid indefinite blocking."
SenderReturns ==
    \A c \in Clients : cpc[c] = "send" ~> cpc[c] # "send"

\* Consumers "receive real-time status updates": a session whose device is
\* gone for good has told its subscribers so last.
DownIsAnnounced ==
    []((opens > 0 /\ []~available) => <>[](notice = "down"))
=============================================================================
