------------------------------ MODULE Broadcast ------------------------------
(***************************************************************************)
(* The fan-out of a session's output: SerialSession.broadcast, Subscribe    *)
(* and Unsubscribe under subMu (a sync.RWMutex), and the two consumers, the *)
(* exec handler (internal/http/exec.go) with its two timers and the SSH     *)
(* handler (internal/ssh/handler.go) with its output goroutine.             *)
(*                                                                         *)
(* A consumer subscribes once, so its channel carries its name.  Messages   *)
(* are numbered per broadcaster: the readLoop of the current generation, an *)
(* older readLoop that announces the loss of its port, a reconnectLoop.     *)
(***************************************************************************)
EXTENDS Integers, Sequences, FiniteSets, Functions

CONSTANTS
    Broadcasters,   \* goroutines that call broadcast
    Execs,          \* exec requests
    Sshs,           \* SSH terminals
    ChanCap,        \* capacity of a subscriber's channel (64 in the code)
    MaxMsgs         \* bound: messages of one broadcaster

Consumers == Execs \cup Sshs

ASSUME BroadcastAssumption ==
    ChanCap \in Nat \ {0} /\ MaxMsgs \in Nat /\ Execs \cap Sshs = {}

VARIABLES
    bpc,      \* broadcaster: "idle", "lock" or "send" (with subMu.RLock)
    count,    \* broadcaster: messages so far, the current one included
    todo,     \* broadcaster: channels its loop has still to visit
    subs,     \* s.subscribers
    chan,     \* channel of a consumer: messages in it
    closed,   \* channels that are closed
    cpc,      \* consumer
    got,      \* messages the consumer took from its channel
    lost,     \* history: consumers that a full channel cost a message
    since,    \* history: count when the exec request was sent
    silence,  \* exec: silenceTimer.C holds a tick
    expired,  \* exec: maxTimer.C holds a tick
    stalled,  \* exec: the client does not read what it is sent
    gone      \* the consumer's client has hung up

bvars == <<bpc, count, todo>>
ivars == <<since, silence, expired, stalled>>
vars == <<bvars, subs, chan, closed, cpc, got, lost, ivars, gone>>

Messages == Broadcasters \X (1..MaxMsgs)

TypeOK ==
    /\ bpc \in [Broadcasters -> {"idle", "lock", "send"}]
    /\ count \in [Broadcasters -> 0..MaxMsgs]
    /\ todo \in [Broadcasters -> SUBSET Consumers]
    /\ subs \subseteq Consumers /\ closed \subseteq Consumers
    /\ lost \subseteq Consumers /\ gone \subseteq Consumers
    /\ chan \in [Consumers -> Seq(Messages)] /\ got \in [Consumers -> Seq(Messages)]
    /\ \A c \in Consumers : Len(chan[c]) <= ChanCap
    /\ cpc \in [Consumers -> {"begin", "sub", "write", "stream", "print", "last", "unsub", "close", "end"}]
    /\ since \in [Execs -> [Broadcasters -> 0..MaxMsgs]]
    /\ silence \in [Execs -> BOOLEAN] /\ expired \in [Execs -> BOOLEAN]
    /\ stalled \subseteq Execs

\* Where each step of a handler leads; a terminal has no request of its own.
ExecOrder_WriteFirst ==                                     \* Mutant
    [start |-> "write", write |-> "begin", begin |-> "sub", sub |-> "stream"]
ExecOrder == [start |-> "begin", begin |-> "sub", sub |-> "write", write |-> "stream"]
After(c, pc) ==
    IF c \in Execs THEN ExecOrder[pc] ELSE [start |-> "begin", begin |-> "sub", sub |-> "stream"][pc]

Init ==
    /\ bpc = [b \in Broadcasters |-> "idle"] /\ count = [b \in Broadcasters |-> 0]
    /\ todo = [b \in Broadcasters |-> {}]
    /\ subs = {} /\ closed = {} /\ lost = {} /\ gone = {}
    /\ chan = [c \in Consumers |-> <<>>] /\ got = [c \in Consumers |-> <<>>]
    /\ cpc = [c \in Consumers |-> After(c, "start")]
    /\ since = [c \in Execs |-> [b \in Broadcasters |-> 0]]
    /\ silence = [c \in Execs |-> FALSE] /\ expired = [c \in Execs |-> FALSE]
    /\ stalled = {}

-----------------------------------------------------------------------------
(* broadcast: RLock, a non-blocking send to every subscriber, RUnlock.      *)
(* A writer that waits for subMu keeps new readers out.                    *)

WriterWaits == \E c \in Consumers : cpc[c] \in {"sub", "unsub"}
Readers == {b \in Broadcasters : bpc[b] = "send"}

BroadcastBegin(b) ==
    /\ bpc[b] = "idle" /\ count[b] < MaxMsgs
    /\ bpc' = [bpc EXCEPT ![b] = "lock"] /\ count' = [count EXCEPT ![b] = @ + 1]
    /\ UNCHANGED <<todo, subs, chan, closed, cpc, got, lost, ivars, gone>>

BroadcastLock(b) ==
    /\ bpc[b] = "lock" /\ ~WriterWaits
    /\ bpc' = [bpc EXCEPT ![b] = "send"] /\ todo' = [todo EXCEPT ![b] = subs]
    /\ UNCHANGED <<count, subs, chan, closed, cpc, got, lost, ivars, gone>>

HasRoom(c) == Len(chan[c]) < ChanCap

\* The send has a default, so it never waits.
MaySend_Blocking(c) == HasRoom(c)                            \* Mutant
MaySend(c) == TRUE

Left(b, c) == todo[b] \ {c}

BroadcastSend(b) ==
    /\ bpc[b] = "send"
    /\ \E c \in todo[b] :
         /\ MaySend(c)
         /\ todo' = [todo EXCEPT ![b] = Left(b, c)]
         /\ IF HasRoom(c)
            THEN chan' = [chan EXCEPT ![c] = Append(@, <<b, count[b]>>)] /\ UNCHANGED lost
            ELSE lost' = lost \cup {c} /\ UNCHANGED chan
    /\ UNCHANGED <<bpc, count, subs, closed, cpc, got, ivars, gone>>

BroadcastUnlock(b) ==
    /\ bpc[b] = "send" /\ todo[b] = {}
    /\ bpc' = [bpc EXCEPT ![b] = "idle"]
    /\ UNCHANGED <<count, todo, subs, chan, closed, cpc, got, lost, ivars, gone>>

BroadcastStep(b) == BroadcastLock(b) \/ BroadcastSend(b) \/ BroadcastUnlock(b)

-----------------------------------------------------------------------------
(* Subscribe and Unsubscribe.                                              *)

Consumer(c, from, to) ==
    cpc[c] = from /\ cpc' = [cpc EXCEPT ![c] = to] /\ UNCHANGED bvars

\* subMu.Lock() succeeds when no reader is left.
LockFree_Always == TRUE                                     \* Mutant
LockFree == Readers = {}

Begin(c) == \* IsConnected or Open succeeded
    /\ Consumer(c, "begin", After(c, "begin"))
    /\ UNCHANGED <<subs, chan, closed, got, lost, ivars, gone>>

Subscribe(c) ==
    /\ LockFree /\ Consumer(c, "sub", After(c, "sub")) /\ subs' = subs \cup {c}
    /\ UNCHANGED <<chan, closed, got, lost, ivars, gone>>

Delete(c) ==
    /\ LockFree /\ Consumer(c, "unsub", "close") /\ subs' = subs \ {c}
    /\ UNCHANGED <<chan, closed, got, lost, ivars, gone>>

Close(c) ==
    /\ Consumer(c, "close", "end") /\ closed' = closed \cup {c}
    /\ UNCHANGED <<subs, chan, got, lost, ivars, gone>>

LockStep(c) == Subscribe(c) \/ Delete(c) \/ Close(c)

-----------------------------------------------------------------------------
(* The exec handler: the request's answer, then the stream.                 *)

\* The request is written (what the device prints from here on answers it),
\* or fails or times out.
ExecWrite(c) ==
    /\ c \in Execs
    /\ \/ Consumer(c, "write", After(c, "write")) /\ since' = [since EXCEPT ![c] = count]
       \/ Consumer(c, "write", "unsub") /\ UNCHANGED since
    /\ UNCHANGED <<subs, chan, closed, got, lost, silence, expired, stalled, gone>>

\* While the handler is in its loop, at the select or in a Fprintf or Flush,
\* the timers run and the client may stop reading, read on or hang up.
Streaming(c) == cpc[c] \in {"stream", "print", "last"}

Meanwhile(c) ==
    c \in Execs /\ Streaming(c) /\ UNCHANGED <<bvars, subs, chan, closed, cpc, got, lost, since>>

SilenceExpires(c) ==
    /\ Meanwhile(c) /\ ~silence[c] /\ silence' = [silence EXCEPT ![c] = TRUE]
    /\ UNCHANGED <<expired, stalled, gone>>

MaxExpires(c) ==
    /\ Meanwhile(c) /\ ~expired[c] /\ expired' = [expired EXCEPT ![c] = TRUE]
    /\ UNCHANGED <<silence, stalled, gone>>

StallOrReadOn(c) ==
    /\ Meanwhile(c) /\ stalled' = IF c \in stalled THEN stalled \ {c} ELSE stalled \cup {c}
    /\ UNCHANGED <<silence, expired, gone>>

HangUp(c) ==
    /\ Meanwhile(c) /\ c \notin gone /\ gone' = gone \cup {c}
    /\ UNCHANGED <<silence, expired, stalled>>

\* Stop, drain and Reset leave no tick in silenceTimer.C; then the message is
\* printed.
ExecMessage(c) ==
    /\ c \in Execs /\ chan[c] # <<>> /\ Consumer(c, "stream", "print")
    /\ got' = [got EXCEPT ![c] = Append(@, Head(chan[c]))]
    /\ chan' = [chan EXCEPT ![c] = Tail(@)]
    /\ silence' = [silence EXCEPT ![c] = FALSE]
    /\ UNCHANGED <<subs, closed, lost, since, expired, stalled, gone>>

\* Fprintf and Flush return, for a client that does not read as long as the
\* buffers on the way have room.  Their errors are not looked at.
ExecPrinted(c) ==
    /\ c \in Execs /\ (Consumer(c, "print", "stream") \/ Consumer(c, "last", "unsub"))
    /\ UNCHANGED <<subs, chan, closed, got, lost, ivars, gone>>

\* select picks any case that is ready.  A stream that a timer ends has a last
\* event to print.
ExecEnd(c, to) ==
    Consumer(c, "stream", to) /\ UNCHANGED <<subs, chan, closed, got, lost, ivars, gone>>

ExecSilence(c) == c \in Execs /\ silence[c] /\ ExecEnd(c, "last")
ExecTimeout_Ignored(c) == FALSE                             \* Mutant
ExecTimeout(c) == c \in Execs /\ expired[c] /\ ExecEnd(c, "last")
ExecGone(c) == c \in Execs /\ c \in gone /\ ExecEnd(c, "unsub")

-----------------------------------------------------------------------------
(* The SSH handler waits for its output goroutine, which ranges over the    *)
(* channel; that ends only when the channel is closed.                     *)

SshOutput(c) ==
    /\ c \in Sshs /\ (chan[c] # <<>> \/ c \in closed)
    /\ IF chan[c] # <<>>
       THEN /\ got' = [got EXCEPT ![c] = Append(@, Head(chan[c]))]
            /\ chan' = [chan EXCEPT ![c] = Tail(@)] /\ Consumer(c, "stream", "stream")
       ELSE Consumer(c, "stream", "unsub") /\ UNCHANGED <<got, chan>>
    /\ UNCHANGED <<subs, closed, lost, ivars, gone>>

-----------------------------------------------------------------------------
ConsumerNext(c) ==
    \/ Begin(c) \/ LockStep(c)
    \/ ExecWrite(c) \/ SilenceExpires(c) \/ MaxExpires(c) \/ StallOrReadOn(c) \/ HangUp(c)
    \/ ExecMessage(c) \/ ExecPrinted(c) \/ ExecSilence(c) \/ ExecTimeout(c) \/ ExecGone(c)
    \/ SshOutput(c)

Next ==
    \/ \E b \in Broadcasters : BroadcastBegin(b) \/ BroadcastStep(b)
    \/ \E c \in Consumers : ConsumerNext(c)

Spec == Init /\ [][Next]_vars

Reads(c) == c \notin stalled \/ c \in gone

\* Goroutines run and the maximum timer fires.  A Fprintf or Flush to a client
\* that reads, or has hung up, returns; nothing bounds one to a client that
\* does neither (the server has no WriteTimeout).  A select picks at random
\* among the cases that are ready, so it takes a timer that is ready every
\* time at last.  Not assumed: that there is output, that the silence timer
\* fires, that a terminal takes messages, that a client hangs up.
Fairness ==
    /\ \A b \in Broadcasters : WF_vars(BroadcastStep(b))
    /\ \A c \in Consumers :
         /\ WF_vars(LockStep(c)) /\ WF_vars(MaxExpires(c))
         /\ WF_vars(Reads(c) /\ ExecPrinted(c)) /\ SF_vars(ExecTimeout(c))

FairSpec == Spec /\ Fairness

-----------------------------------------------------------------------------
\* No broadcast sends on a closed channel, which would end the process: a
\* channel a broadcast may still visit is in the map, and Unsubscribe closes
\* only after it has left the map with no broadcast under way.
NoSendOnClosed ==
    \A b \in Broadcasters : todo[b] \cap closed = {}

\* Each message of a broadcaster stands once, behind those it sent earlier.
InOrder(s) ==
    \A i, j \in 1..Len(s) : i < j /\ s[i][1] = s[j][1] => s[i][2] < s[j][2]

\* A consumer gets what a goroutine broadcasts in its order and no message
\* twice.  "Subscribe before writing so we don't miss output": a stream whose
\* channel was never full has been sent every message since its request was
\* written, except those a broadcast has still to deliver.
StreamFaithful ==
    /\ \A c \in Consumers : InOrder(got[c] \o chan[c])
    /\ \A c \in Execs, b \in Broadcasters :
          (Streaming(c) /\ c \notin lost) =>
              \A n \in (since[c][b] + 1)..count[b] :
                  \/ <<b, n>> \in Range(got[c]) \cup Range(chan[c])
                  \/ n = count[b] /\ (bpc[b] = "lock" \/ c \in todo[b])

\* However slow the consumers are, a broadcast ends, so that the readLoop
\* reads on.
BroadcastReturns ==
    \A b \in Broadcasters : bpc[b] # "idle" ~> bpc[b] = "idle"

\* A stream whose client goes on reading, or hangs up, ends and gives its
\* subscription back, however much is printed meanwhile.
StreamEnds ==
    \A c \in Execs : []((Streaming(c) /\ []Reads(c)) => <>(c \notin subs))

-----------------------------------------------------------------------------
\* "Hard cap on total stream duration" (the wiki on max_duration): a handler
\* stuck in a Fprintf never looks at maxTimer.
ExecIsCapped ==
    \A c \in Execs : cpc[c] = "stream" ~> c \notin subs

\* "When the SSH client disconnects ... handleSession returns": its
\* subscription does not outlive the connection.
TerminalUnsubscribes ==
    \A c \in Sshs : c \in gone ~> c \notin subs
=============================================================================
